---- MODULE Spec2Model ----
(***************************************************************************)
(* Verification model of the OMERO annotation scripts                      *)
(*   omero/annotation_scripts/KeyVal_from_csv.py                           *)
(*   omero/annotation_scripts/KeyVals_to_Tag.py                            *)
(*   omero/annotation_scripts/KeyVal_to_csv.py                             *)
(***************************************************************************)
EXTENDS Integers, Sequences, FiniteSets, TLC

VARIABLES
    pc,                 \* position of the script that is running
    \* ---- the tag registry (get_tag_dict)
    tags,               \* TagAnnotations of the store: id -> [value, own, isSet]
    tagLinks,           \* tagset -> tag links of the store: set of <<parent, child>>
    use_personal_tags,  \* script parameter "Use only personal Tags"
    tag_d,              \* tag name -> tag id
    tagset_d,           \* tagset name -> tagset id
    tagtree_d,          \* <<tagset name, tag name>> -> tag id
    tagid_d,            \* ids of the tags kept as objects
    \* ---- the annotations of the store
    annLinks,           \* object -> annotation links, in creation order: <<obj, ann id>>
    mapAnns,            \* MapAnnotations created: ann id -> [ns, kv]
    nextAnnId,          \* id the store gives to the next annotation saved
    \* ---- one call of annotate_object / annotate_objects
    a_in,               \* arguments of the call
    call,               \* what the last call did: store before it, value returned
    \* ---- the CSV file
    file_rows,          \* rows csv.reader gives for the file, each a sequence of cells
    csv,                \* what read_csv returned: rows, header, namespaces (or the error)
    \* ---- the containers of the store
    hier,               \* children, images, runs and tagged objects of the containers
    walk,               \* the last walk: source, target type and the objects found
    \* ---- one run of KeyVal_from_csv.py
    script_params,      \* the inputs of the client, then the parsed parameters
    run                 \* the local variables of main_loop

tagVars == <<tags, tagLinks, use_personal_tags, tag_d, tagset_d, tagtree_d, tagid_d>>
storeVars == <<annLinks, mapAnns, nextAnnId>>
callVars == <<a_in, call>>
csvVars == <<file_rows, csv>>
walkVars == <<hier, walk>>
mainVars == <<script_params, run>>
vars == <<pc, tagVars, storeVars, callVars, csvVars, walkVars, mainVars>>

----------------------------------------------------------------------------
(* Generic helpers                                                         *)

SetMax(S) == CHOOSE x \in S : \A y \in S : y <= x
SetMin(S) == CHOOSE x \in S : \A y \in S : x <= y
EmptyFn == [x \in {} |-> 0]
BoolInt(b) == IF b THEN 1 ELSE 0
None == "None"

\* Values of the variables a script does not use
StoreIdle == annLinks = <<>> /\ mapAnns = EmptyFn /\ nextAnnId = 0
CallIdle == a_in = None /\ call = None
CsvIdle == file_rows = <<>> /\ csv = None
WalkIdle == hier = None /\ walk = None
MainIdle == script_params = None /\ run = None
TagDictIdle ==
    /\ tags = EmptyFn /\ tagLinks = {} /\ use_personal_tags = FALSE
    /\ tag_d = EmptyFn /\ tagset_d = EmptyFn /\ tagtree_d = EmptyFn /\ tagid_d = {}

----------------------------------------------------------------------------
(* get_tag_dict                                                            *)

MaxTags == 3
TagNames == {"X", "Y"}

\* Tags the scan keeps: all of them, or only the user's own
ScannedTags(tg, personal) == {i \in DOMAIN tg : ~(personal /\ ~tg[i].own)}

\* max_id = max(max_id, tag.id) over the scanned tags, starting at -1
max_id(tg, personal) == SetMax(ScannedTags(tg, personal) \cup {-1})

\* A key that puts the larger identifiers first
SortKeyDescending(e, m) == e[1] * m - e[2]

\* key=lambda x: (x[0]*max_id + x[1]) on an entry <<is_owner, id>>
SortKey(e, m) == e[1] * m + e[2]

\* v.sort(key=...); v[0][1]: the ids an ascending stable sort can put first
SortFirst(entries, m) ==
    {e[2] : e \in {x \in entries : \A y \in entries : SortKey(x, m) <= SortKey(y, m)}}

\* tag_d[tagname].append((int(is_owner), tag.id)) for the scanned plain tags
TagEntries(tg, personal, name) ==
    {<<BoolInt(tg[i].own), i>> :
        i \in {j \in ScannedTags(tg, personal) : ~tg[j].isSet /\ tg[j].value = name}}

\* tagset_d[tagname].append((int(is_owner), tag.id)) for the scanned tagsets
TagsetEntries(tg, personal, name) ==
    {<<BoolInt(tg[i].own), i>> :
        i \in {j \in ScannedTags(tg, personal) : tg[j].isSet /\ tg[j].value = name}}

\* tagtree_d[tagname][cname].append((cown, cid)) over the links of every
\* scanned tagset called sname
TreeEntries(tg, lk, personal, sname, cname) ==
    {<<BoolInt(tg[l[2]].own), l[2]>> :
        l \in {k \in lk : /\ k[1] \in ScannedTags(tg, personal)
                          /\ tg[k[1]].isSet /\ tg[k[1]].value = sname
                          /\ tg[k[2]].value = cname}}

\* tag.getValue() of the tags of the store
ValuesOf(tg) == {tg[i].value : i \in DOMAIN tg}
\* The keys of the three dictionaries: the names that have entries
TagKeys(tg, personal) ==
    {n \in ValuesOf(tg) : TagEntries(tg, personal, n) # {}}
TagsetKeys(tg, personal) ==
    {n \in ValuesOf(tg) : TagsetEntries(tg, personal, n) # {}}
TreeKeys(tg, lk, personal) ==
    {p \in ValuesOf(tg) \X ValuesOf(tg) : TreeEntries(tg, lk, personal, p[1], p[2]) # {}}

\* The four dictionaries get_tag_dict can return for a store
get_tag_dict(tg, lk, personal) ==
    LET m == max_id(tg, personal) IN
    { [tag_d |-> td, tagset_d |-> sd, tagtree_d |-> tt,
       tagid_d |-> ScannedTags(tg, personal)] :
        td \in {f \in [TagKeys(tg, personal) -> DOMAIN tg] :
                  \A n \in DOMAIN f : f[n] \in SortFirst(TagEntries(tg, personal, n), m)},
        sd \in {f \in [TagsetKeys(tg, personal) -> DOMAIN tg] :
                  \A n \in DOMAIN f : f[n] \in SortFirst(TagsetEntries(tg, personal, n), m)},
        tt \in {f \in [TreeKeys(tg, lk, personal) -> DOMAIN tg] :
                  \A p \in DOMAIN f :
                      f[p] \in SortFirst(TreeEntries(tg, lk, personal, p[1], p[2]), m)} }

\* Stores of the registry: MaxTags tags with ids 1..MaxTags, any name, owner
\* and kind, and any set of tagset -> tag links
TagStores ==
    [1..MaxTags -> [value : TagNames, own : BOOLEAN, isSet : BOOLEAN]]
LinksOf(tg) ==
    SUBSET {p \in (DOMAIN tg) \X (DOMAIN tg) : tg[p[1]].isSet /\ ~tg[p[2]].isSet}

InitTagDict ==
    /\ pc = "tagdict"
    /\ tags \in TagStores
    /\ tagLinks \in LinksOf(tags)
    /\ use_personal_tags \in BOOLEAN
    /\ tag_d = EmptyFn /\ tagset_d = EmptyFn /\ tagtree_d = EmptyFn
    /\ tagid_d = {}
    /\ StoreIdle /\ CallIdle /\ CsvIdle /\ WalkIdle /\ MainIdle

GetTagDict ==
    /\ pc = "tagdict"
    /\ \E r \in get_tag_dict(tags, tagLinks, use_personal_tags) :
          /\ tag_d' = r.tag_d
          /\ tagset_d' = r.tagset_d
          /\ tagtree_d' = r.tagtree_d
          /\ tagid_d' = r.tagid_d
    /\ pc' = "tagdict_done"
    /\ UNCHANGED <<tags, tagLinks, use_personal_tags, storeVars, callVars, csvVars, walkVars, mainVars>>

NextTagDict == GetTagDict
SpecTagDict == InitTagDict /\ [][NextTagDict]_vars

\* C1: among same-named plain tags (tagsets, members of one tagset) the id
\* kept is one of a tag owned by the current user whenever one is owned.
C1_OwnedTagWins ==
    pc = "tagdict_done" =>
        /\ \A n \in DOMAIN tag_d :
              (\E e \in TagEntries(tags, use_personal_tags, n) : e[1] = 1)
                  => tags[tag_d[n]].own
        /\ \A n \in DOMAIN tagset_d :
              (\E e \in TagsetEntries(tags, use_personal_tags, n) : e[1] = 1)
                  => tags[tagset_d[n]].own
        /\ \A p \in DOMAIN tagtree_d :
              (\E e \in TreeEntries(tags, tagLinks, use_personal_tags, p[1], p[2]) : e[1] = 1)
                  => tags[tagtree_d[p]].own

\* The identifiers get_tag_dict stored in the three dictionaries of names
StoredIds ==
    {tag_d[n] : n \in DOMAIN tag_d} \cup {tagset_d[n] : n \in DOMAIN tagset_d}
        \cup {tagtree_d[p] : p \in DOMAIN tagtree_d}

\* C16: with "use only personal tags" every identifier stored in tag_d,
\* tagset_d and tagtree_d is of a tag owned by the current user and is a key
\* of tagid_d, the members of a personal tagset included.
C16_PersonalOnly ==
    (pc = "tagdict_done" /\ use_personal_tags) =>
        \A i \in StoredIds : tags[i].own /\ i \in tagid_d

\* The entries of equal ownership that are collected under one name
EqualOwnership(entries) == \A x, y \in entries : x[1] = y[1]
SmallestId(entries) == SetMin({e[2] : e \in entries})

\* C17: among same-named tags of equal ownership get_tag_dict keeps the one
\* with the smallest identifier: for plain tags, for tagsets and for the
\* members of the tagsets of one name.
C17_SmallestIdWins ==
    pc = "tagdict_done" =>
        /\ \A n \in DOMAIN tag_d :
              EqualOwnership(TagEntries(tags, use_personal_tags, n))
                  => tag_d[n] = SmallestId(TagEntries(tags, use_personal_tags, n))
        /\ \A n \in DOMAIN tagset_d :
              EqualOwnership(TagsetEntries(tags, use_personal_tags, n))
                  => tagset_d[n] = SmallestId(TagsetEntries(tags, use_personal_tags, n))
        /\ \A p \in DOMAIN tagtree_d :
              EqualOwnership(TreeEntries(tags, tagLinks, use_personal_tags, p[1], p[2]))
                  => tagtree_d[p] =
                        SmallestId(TreeEntries(tags, tagLinks, use_personal_tags, p[1], p[2]))

\* Tags 2 and 3 are both called Y, both owned and both members of the
\* tagset X, which is tag 1: tag 2 is kept as the tag Y and as the member Y
C17_Witness ==
    /\ pc = "tagdict_done"
    /\ tags[1].isSet /\ tags[1].value = "X"
    /\ ~tags[2].isSet /\ ~tags[3].isSet
    /\ tags[2].value = "Y" /\ tags[3].value = "Y"
    /\ tags[2].own /\ tags[3].own
    /\ tagLinks = {<<1, 2>>, <<1, 3>>}
    /\ tag_d["Y"] = 2 /\ tagtree_d[<<"X", "Y">>] = 2

----------------------------------------------------------------------------
(* Strings.  A cell of the CSV is the sequence of the pieces its text has  *)
(* between occurrences of the separator of the run ("," unless "Split      *)
(* value on" is given): "1,2" is <<"1", "2">>, "" is <<"">>.               *)

DecStr == <<"1", "2", "3", "4", "5", "6", "7", "8", "9">>
\* str(n) of a positive identifier
str(n) == DecStr[n]
\* int(s): the number a decimal string denotes, -1 where int() raises ValueError
int(s) == IF \E n \in DOMAIN DecStr : DecStr[n] = s
          THEN CHOOSE n \in DOMAIN DecStr : DecStr[n] = s
          ELSE -1
\* A lower() that leaves the capitals
lowerKeepingCase(h) == h

\* h.lower() on the header names of the model
lower(h) == CASE h = "Tag" -> "tag"
              [] h = "TAG" -> "tag"
              [] h = "NAMESPACE" -> "namespace"
              [] h = "Namespace" -> "namespace"
              [] OTHER -> h
EmptyCell == <<"">>

RECURSIVE OrderedKeys(_)
\* list(OrderedDict.fromkeys(s)): the distinct elements, first seen first
OrderedKeys(s) ==
    IF s = <<>> THEN <<>>
    ELSE LET init == OrderedKeys(SubSeq(s, 1, Len(s) - 1))
             x == s[Len(s)]
         IN IF \E i \in DOMAIN init : init[i] = x THEN init ELSE Append(init, x)

RECURSIVE Flatten(_)
Flatten(ss) == IF ss = <<>> THEN <<>> ELSE Head(ss) \o Flatten(Tail(ss))

\* The numbers of K in ascending order
RECURSIVE Ascending(_)
Ascending(K) ==
    IF K = {} THEN <<>> ELSE <<SetMin(K)>> \o Ascending(K \ {SetMin(K)})

----------------------------------------------------------------------------
(* annotate_object (KeyVal_from_csv.py)                                    *)

\* The store as one value, for the operators that write to it
Store == [links |-> annLinks, maps |-> mapAnns, next |-> nextAnnId]

\* [ann.getId() for ann in obj.listAnnotations()]
ExistIdsNone(st, obj) == {}
ExistIds(st, obj) == {st.links[i][2] : i \in {j \in DOMAIN st.links : st.links[j][1] = obj}}

\* Columns of the namespace group, the empty ones with the others
GroupColsKeepingEmpty(a, curr_ns) ==
    Ascending({i \in DOMAIN a.row : a.namespaces[i] = curr_ns})

\* Columns of the namespace group that pass
\* "ns == curr_ns and (len(r) > 0 or not exclude_empty_value)"
GroupCols(a, curr_ns) ==
    Ascending({i \in DOMAIN a.row :
                  /\ a.namespaces[i] = curr_ns
                  /\ (a.row[i] # EmptyCell \/ ~a.exclude_empty_value)})

\* kv_list of the group: the [h, r] pairs of its columns that are not "tag"
KvList(a, curr_ns) ==
    LET cols == GroupCols(a, curr_ns)
        kept == Ascending({k \in DOMAIN cols : lower(a.header[cols[k]]) # "tag"})
    IN [k \in DOMAIN kept |-> <<a.header[cols[kept[k]]], a.row[cols[kept[k]]]>>]

\* tag_id_l of the group: r.split(",") of its non-empty "tag" cells, or the
\* cell itself when split_on is given
TagIdL(a, curr_ns) ==
    LET cols == GroupCols(a, curr_ns)
        kept == Ascending({k \in DOMAIN cols : /\ lower(a.header[cols[k]]) = "tag"
                                                /\ a.row[cols[k]] # EmptyCell})
    IN Flatten([k \in DOMAIN kept |->
                  IF a.split_on = "" \/ Len(a.row[cols[kept[k]]]) = 1
                  THEN a.row[cols[kept[k]]]
                  ELSE <<"not a number">>])

\* map_ann.save(); obj.linkAnnotation(map_ann)
LinkMapAnn(st, obj, ns, kv) ==
    [links |-> Append(st.links, <<obj, st.next>>),
     maps |-> [i \in DOMAIN st.maps \cup {st.next} |->
                  IF i = st.next THEN [ns |-> ns, kv |-> kv] ELSE st.maps[i]],
     next |-> st.next + 1]

RECURSIVE LinkTags(_, _, _, _, _, _)
\* for tag_id in tag_id_l: link the tags that are not in exist_ids
LinkTags(ids, obj, exist, tagid, st, upd) ==
    IF ids = <<>> THEN [st |-> st, updated |-> upd, err |-> "none"]
    ELSE LET tag_id == int(Head(ids)) IN
         IF tag_id = -1 THEN [st |-> st, updated |-> upd, err |-> "ValueError"]
         ELSE IF tag_id \in exist
              THEN LinkTags(Tail(ids), obj, exist, tagid, st, upd)
         ELSE IF tag_id \notin tagid
              THEN [st |-> st, updated |-> upd, err |-> "KeyError"]
         ELSE LinkTags(Tail(ids), obj, exist \cup {tag_id}, tagid,
                       [st EXCEPT !.links = Append(@, <<obj, tag_id>>)], TRUE)

\* "updated = False" at the top of the body of the loop over namespaces
GroupStart(upd) == FALSE

\* One pass of "for curr_ns in ...": the map annotation, then the tags
AnnotateGroup(a, obj, curr_ns, tagid, st, upd) ==
    LET kv_list == KvList(a, curr_ns)
        tag_id_l == TagIdL(a, curr_ns)
        st1 == IF Len(kv_list) > 0 THEN LinkMapAnn(st, obj, curr_ns, kv_list) ELSE st
        upd1 == IF Len(kv_list) > 0 THEN TRUE ELSE GroupStart(upd)
    IN IF Len(tag_id_l) > 0
       THEN LinkTags(tag_id_l, obj, ExistIds(st1, obj), tagid, st1, upd1)
       ELSE [st |-> st1, updated |-> upd1, err |-> "none"]

RECURSIVE AnnotateGroups(_, _, _, _, _, _)
AnnotateGroups(a, obj, nss, tagid, st, upd) ==
    IF nss = <<>> THEN [st |-> st, updated |-> upd, err |-> "none"]
    ELSE LET r == AnnotateGroup(a, obj, Head(nss), tagid, st, upd) IN
         IF r.err # "none" THEN r
         ELSE AnnotateGroups(a, obj, Tail(nss), tagid, r.st, r.updated)

\* annotate_object(conn, obj, row, header, namespaces, exclude_empty_value,
\*                 tagid_d, split_on): the store it leaves and what it returns
annotate_object(a, obj, tagid, st) ==
    AnnotateGroups(a, obj, OrderedKeys(a.namespaces), tagid, st, FALSE)

----------------------------------------------------------------------------
(* annotate_objects (KeyVals_to_Tag.py)                                    *)

RECURSIVE LinkTagIds(_, _, _, _, _, _)
\* for tag_id in tag_id_l (integers here): link those not in exist_ids
LinkTagIds(ids, obj, exist, tagid, st, upd) ==
    IF ids = <<>> THEN [st |-> st, updated |-> upd, err |-> "none"]
    ELSE IF Head(ids) \in exist
         THEN LinkTagIds(Tail(ids), obj, exist, tagid, st, upd)
    ELSE IF Head(ids) \notin tagid
         THEN [st |-> st, updated |-> upd, err |-> "KeyError"]
    ELSE LinkTagIds(Tail(ids), obj, exist \cup {Head(ids)}, tagid,
                    [st EXCEPT !.links = Append(@, <<obj, Head(ids)>>)], TRUE)

RECURSIVE annotate_objects(_, _, _, _, _)
\* annotate_objects(conn, target_obj_d, obj_totag_d, tagid_d), objs being the
\* keys of target_obj_d in insertion order and n the count so far
annotate_objects(objs, obj_totag_d, tagid, st, n) ==
    IF objs = <<>> THEN [st |-> st, updated_count |-> n, err |-> "none"]
    ELSE LET obj == Head(objs)
             r == LinkTagIds(obj_totag_d[obj], obj, ExistIds(st, obj), tagid, st, FALSE)
         IN IF r.err # "none" THEN [st |-> r.st, updated_count |-> n, err |-> r.err]
            ELSE annotate_objects(Tail(objs), obj_totag_d, tagid, r.st,
                                  n + BoolInt(r.updated))

----------------------------------------------------------------------------
(* Calls of annotate_object and annotate_objects on one store              *)

MaxCols == 2
MaxCalls == 2
Objs == {1, 2}
LinkableTags == {1, 2}
Namespaces == {"n1", "n2"}
KeyHeaders == {"K"}
TagHeaders == {"Tag", "TAG"}
\* The tag column is headed "Tag" in the namespace n1 and "TAG" in n2
TagHeaderOf(ns) == IF ns = "n1" THEN "Tag" ELSE "TAG"
KeyCells == {EmptyCell, <<"v">>}
TagCells == {EmptyCell, <<"1">>, <<"1", "2">>}

\* A column as main_loop hands it over: namespace, header and cell
AnnCols ==
    [ns : Namespaces, h : KeyHeaders, r : KeyCells]
        \cup {c \in [ns : Namespaces, h : TagHeaders, r : TagCells] : c.h = TagHeaderOf(c.ns)}
AnnArgs ==
    {[row |-> [i \in DOMAIN cs |-> cs[i].r],
      header |-> [i \in DOMAIN cs |-> cs[i].h],
      namespaces |-> [i \in DOMAIN cs |-> cs[i].ns],
      exclude_empty_value |-> ex,
      split_on |-> sp] :
        cs \in UNION {[1..n -> AnnCols] : n \in 1..MaxCols},
        ex \in BOOLEAN, sp \in {"", ";"}}
\* With "Split value on" given main_loop has split every cell already
AnnInputs == {a \in AnnArgs : a.split_on # "" => \A i \in DOMAIN a.row : Len(a.row[i]) = 1}
TagIdLists == {<<>>, <<1>>, <<2, 1>>, <<1, 1>>}

\* Either the CSV script's annotate_object is called on one row, or the
\* tag script's annotate_objects on lists of tag ids
InitAnnotate ==
    /\ pc \in {"annotate_object", "annotate_objects"}
    /\ tags = EmptyFn /\ tagLinks = {} /\ use_personal_tags = FALSE
    /\ tag_d = EmptyFn /\ tagset_d = EmptyFn /\ tagtree_d = EmptyFn
    /\ tagid_d = LinkableTags
    /\ annLinks \in {<<>>, << <<1, 2>> >>}
    /\ mapAnns = EmptyFn
    /\ nextAnnId = SetMax(LinkableTags) + 1
    /\ a_in \in IF pc = "annotate_object" THEN AnnInputs ELSE [Objs -> TagIdLists]
    /\ call = [kind |-> "none", n |-> 0]
    /\ CsvIdle /\ WalkIdle /\ MainIdle

\* annotate_object called on object obj with the arguments a_in
AnnotateObject(obj) ==
    /\ pc = "annotate_object"
    /\ call.n < MaxCalls
    /\ LET r == annotate_object(a_in, obj, tagid_d, Store) IN
          /\ annLinks' = r.st.links
          /\ mapAnns' = r.st.maps
          /\ nextAnnId' = r.st.next
          /\ call' = [kind |-> "object", n |-> call.n + 1, obj |-> obj,
                      linksBefore |-> Len(annLinks), nextBefore |-> nextAnnId,
                      updated |-> r.updated, err |-> r.err]
    /\ UNCHANGED <<pc, tagVars, a_in, csvVars, walkVars, mainVars>>

\* annotate_objects called on both objects with the lists of tag ids a_in
AnnotateObjects ==
    /\ pc = "annotate_objects"
    /\ call.n < MaxCalls
    /\ LET r == annotate_objects(Ascending(Objs), a_in, tagid_d, Store, 0) IN
          /\ annLinks' = r.st.links
          /\ mapAnns' = r.st.maps
          /\ nextAnnId' = r.st.next
          /\ call' = [kind |-> "objects", n |-> call.n + 1,
                      linksBefore |-> Len(annLinks), nextBefore |-> nextAnnId,
                      updated_count |-> r.updated_count, err |-> r.err]
    /\ UNCHANGED <<pc, tagVars, a_in, csvVars, walkVars, mainVars>>

NextAnnotate == (\E obj \in Objs : AnnotateObject(obj)) \/ AnnotateObjects
SpecAnnotate == InitAnnotate /\ [][NextAnnotate]_vars

\* What the last call found and did
LinksBeforeCall == SubSeq(annLinks, 1, call.linksBefore)
LinksOfCall == SubSeq(annLinks, call.linksBefore + 1, Len(annLinks))
ExistBeforeCall(obj) == {LinksBeforeCall[i][2] : i \in {j \in DOMAIN LinksBeforeCall :
                                                          LinksBeforeCall[j][1] = obj}}
\* Tag ids the arguments a_in ask annotate_object to link
WantedTags ==
    {int(t) : t \in UNION {{a_in.row[i][k] : k \in DOMAIN a_in.row[i]} :
                 i \in {j \in DOMAIN a_in.row : /\ lower(a_in.header[j]) = "tag"
                                                /\ a_in.row[j] # EmptyCell}}}
TimesLinked(obj, ann) == Cardinality({i \in DOMAIN annLinks : annLinks[i] = <<obj, ann>>})

\* C2: tag linking is idempotent: whatever calls were made, a tag is linked
\* to an object at most once, and a call whose tag ids are all linked
\* already links no tag and reports no update for the tags.
C2_IdempotentTagLinks ==
    /\ \A obj \in Objs, t \in LinkableTags : TimesLinked(obj, t) <= 1
    /\ (call.kind = "object" /\ WantedTags \subseteq ExistBeforeCall(call.obj)) =>
          /\ \A i \in DOMAIN LinksOfCall : LinksOfCall[i][2] \notin LinkableTags
          /\ (nextAnnId = call.nextBefore => ~call.updated)
    /\ (call.kind = "objects"
          /\ \A obj \in Objs : \A k \in DOMAIN a_in[obj] :
                a_in[obj][k] \in ExistBeforeCall(obj)) =>
          /\ LinksOfCall = <<>>
          /\ call.updated_count = 0

\* A second call with the tag ids the first one linked to object 2
C2_Witness ==
    /\ call.kind = "object" /\ call.n = 2 /\ call.obj = 2
    /\ WantedTags = {1, 2}
    /\ WantedTags \subseteq ExistBeforeCall(2)
    /\ TimesLinked(2, 1) = 1 /\ TimesLinked(2, 2) = 1

\* C3: annotate_object returns true exactly when the call linked a new
\* annotation (a key-value annotation of any namespace group, or a tag).
C3_UpdatedIffLinked ==
    (call.kind = "object" /\ call.err = "none") =>
        (call.updated <=> Len(annLinks) > call.linksBefore)

\* The key-value annotations the last call created, in the order of creation
CreatedByCall ==
    [k \in 1..(nextAnnId - call.nextBefore) |-> mapAnns[call.nextBefore + k - 1]]
\* A header that is "tag" whatever its case
IsTagHeader(h) == h \in {"tag", "Tag", "TAG"}
\* The pairs of namespace ns that the arguments a_in hold, in column order
PairsOfNamespace(ns) ==
    LET idx == Ascending({i \in DOMAIN a_in.row :
                  /\ a_in.namespaces[i] = ns
                  /\ ~IsTagHeader(a_in.header[i])
                  /\ ~(a_in.exclude_empty_value /\ a_in.row[i] = EmptyCell)})
    IN [k \in DOMAIN idx |-> <<a_in.header[idx[k]], a_in.row[idx[k]]>>]
\* One annotation for each namespace with pairs, in first-seen namespace order
ExpectedOfCall ==
    LET firsts == Ascending({i \in DOMAIN a_in.namespaces :
                     \A j \in 1..(i - 1) : a_in.namespaces[j] # a_in.namespaces[i]})
        groups == [k \in DOMAIN firsts |->
                     [ns |-> a_in.namespaces[firsts[k]],
                      kv |-> PairsOfNamespace(a_in.namespaces[firsts[k]])]]
        HasPairs(g) == g.kv # <<>>
    IN SelectSeq(groups, HasPairs)

\* C18: one call of annotate_object creates, in first-seen namespace order,
\* one key-value annotation for each namespace that has pairs to hold: the
\* non-tag (header, value) pairs of that namespace in column order, without
\* those of empty value when exclude_empty is set; it creates no other.
C18_OneAnnotationPerNamespace ==
    call.kind = "object" =>
        /\ Len(CreatedByCall) <= Len(ExpectedOfCall)
        /\ CreatedByCall = SubSeq(ExpectedOfCall, 1, Len(CreatedByCall))
        /\ call.err = "none" => CreatedByCall = ExpectedOfCall
        /\ \A i, j \in DOMAIN CreatedByCall : i # j => CreatedByCall[i].ns # CreatedByCall[j].ns
        /\ \A k \in DOMAIN CreatedByCall :
              \E i \in DOMAIN LinksOfCall : LinksOfCall[i] = <<call.obj, call.nextBefore + k - 1>>

\* The call has a column of n2 with an empty value before a column of n1:
\* empty values being kept, the annotation of n2 was made first
C18_Witness ==
    /\ call.kind = "object" /\ call.err = "none"
    /\ a_in.namespaces = <<"n2", "n1">>
    /\ a_in.header = <<"K", "K">>
    /\ a_in.row = <<EmptyCell, <<"v">> >>
    /\ ~a_in.exclude_empty_value
    /\ Len(CreatedByCall) = 2
    /\ CreatedByCall[1].ns = "n2" /\ CreatedByCall[2].ns = "n1"

\* The tag ids in the cells of the "tag" columns of the arguments a_in
TagIdsOfCall ==
    {int(t) : t \in UNION {{a_in.row[i][k] : k \in DOMAIN a_in.row[i]} :
                 i \in {j \in DOMAIN a_in.row : /\ IsTagHeader(a_in.header[j])
                                                /\ a_in.row[j] # EmptyCell}}}

\* C19: a column headed "tag" in any case gives no pair to any key-value
\* annotation, whatever its namespace and whether its cell is empty or not;
\* the content of its cell is used as the tag ids to link and only as that.
C19_TagColumnDiverted ==
    call.kind = "object" =>
        /\ \A k \in DOMAIN CreatedByCall :
              \A q \in DOMAIN CreatedByCall[k].kv : ~IsTagHeader(CreatedByCall[k].kv[q][1])
        /\ \A i \in DOMAIN LinksOfCall :
              \/ LinksOfCall[i][2] \in DOMAIN mapAnns
              \/ LinksOfCall[i][1] = call.obj /\ LinksOfCall[i][2] \in TagIdsOfCall
        /\ call.err = "none" => TagIdsOfCall \subseteq ExistIds(Store, call.obj)

\* A call with the columns TAG and K in n2: a tag is linked, and the one
\* key-value annotation holds the pair of K only
C19_Witness ==
    /\ call.kind = "object" /\ call.n = 1 /\ call.obj = 2
    /\ a_in.header = <<"TAG", "K">> /\ a_in.namespaces = <<"n2", "n2">>
    /\ a_in.row = << <<"1">>, <<"v">> >>
    /\ Len(CreatedByCall) = 1
    /\ CreatedByCall[1].kv = << <<"K", <<"v">> >> >>
    /\ \E i \in DOMAIN LinksOfCall : LinksOfCall[i] = <<2, 1>>

----------------------------------------------------------------------------
(* read_csv                                                                *)

NSCLIENTMAPANNOTATION == "openmicroscopy.org/omero/client/mapAnnotation"

\* el.strip() on the pieces of text of the model
strip(t) == CASE t = " a " -> "a"
              [] t = " " -> ""
              [] t = " ID " -> "ID"
              [] OTHER -> t
\* A strip() that leaves the cell as it is
StripCellNot(c) == c

\* strip() of a cell: of its first piece on the left, its last on the right
StripCell(c) == [k \in DOMAIN c |-> IF k = 1 \/ k = Len(c) THEN strip(c[k]) ELSE c[k]]
LowerCell(c) == [k \in DOMAIN c |-> lower(c[k])]

\* Line cited by the row length error: the index i of "for i in range(...)"
\* for the row that is rows[i] in Python, which is the i+1-th row
ErrorLine(i) == i

NoMsg == [header |-> -1, line |-> -1, has |-> -1]

\* The row length check: the first row whose length is not the first row's
RowLengthError(rows) ==
    LET rowlen == Len(rows[1])
        bad == {i \in 2..Len(rows) : Len(rows[i]) # rowlen}
    IN IF bad = {} THEN NoMsg
       ELSE [header |-> rowlen, line |-> ErrorLine(SetMin(bad) - 1),
             has |-> Len(rows[SetMin(bad)])]

CsvError(e, m) == [err |-> e, msg |-> m, rows |-> <<>>, header |-> <<>>, namespaces |-> <<>>]

\* read_csv(conn, original_file, delimiter) on the rows of the file
read_csv(rows) ==
    IF rows = <<>> THEN CsvError("IndexError", NoMsg)
    ELSE IF RowLengthError(rows) # NoMsg
         THEN CsvError("AssertionError", RowLengthError(rows))
    ELSE IF rows[1] = <<>> THEN CsvError("IndexError", NoMsg)
    ELSE LET has_ns == LowerCell(rows[1][1]) = <<"namespace">>
             namespaces ==
                 IF has_ns
                 THEN [i \in DOMAIN rows[1] |->
                         IF StripCell(rows[1][i]) = EmptyCell
                         THEN NSCLIENTMAPANNOTATION
                         ELSE StripCell(rows[1][i])[1]]
                 ELSE <<>>
             rest == IF has_ns THEN Tail(rows) ELSE rows
         IN IF rest = <<>> THEN CsvError("IndexError", NoMsg)
            ELSE [err |-> "none", msg |-> NoMsg,
                  rows |-> Tail(rest),
                  header |-> [i \in DOMAIN rest[1] |-> StripCell(rest[1][i])[1]],
                  namespaces |-> namespaces]

MaxCsvCols == 2
MaxCsvRows == 3
FirstCells == {<<"Namespace">>, <<" a ">>, <<"">>}
OtherCells == {<<" a ">>, <<"">>}
CsvRowsOfModel ==
    UNION {{r \in [1..n -> FirstCells \cup OtherCells] :
                \A i \in 2..n : r[i] \in OtherCells} : n \in 0..MaxCsvCols}
CsvFiles == UNION {[1..n -> CsvRowsOfModel] : n \in 1..MaxCsvRows}

InitCsv ==
    /\ pc = "read_csv"
    /\ file_rows \in CsvFiles
    /\ csv = None
    /\ TagDictIdle /\ StoreIdle /\ CallIdle /\ WalkIdle /\ MainIdle

ReadCsv ==
    /\ pc = "read_csv"
    /\ csv' = read_csv(file_rows)
    /\ pc' = "read_csv_done"
    /\ UNCHANGED <<file_rows, tagVars, storeVars, callVars, walkVars, mainVars>>

NextCsv == ReadCsv
SpecCsv == InitCsv /\ [][NextCsv]_vars

\* Rows of the file whose number of cells differs from the first row's
BadRows == {i \in 2..Len(file_rows) : Len(file_rows[i]) # Len(file_rows[1])}

\* C5: read_csv fails on a file with a row whose length differs from the
\* header's, the error naming the row's line (1-based in the file), the header
\* length and the row length; a file with all rows equal is not rejected thus.
C5_RowLengthError ==
    pc = "read_csv_done" =>
        /\ BadRows # {} =>
              /\ csv.err = "AssertionError"
              /\ csv.msg = [header |-> Len(file_rows[1]), line |-> SetMin(BadRows),
                            has |-> Len(file_rows[SetMin(BadRows)])]
        /\ BadRows = {} => csv.err # "AssertionError"

\* The first cell of the file is "namespace" in some case
NamespaceCells == {<<"namespace">>, <<"Namespace">>, <<"NAMESPACE">>}
HasNamespaceRow == file_rows[1][1] \in NamespaceCells
\* The row of the file that is the header
HeaderRow == IF HasNamespaceRow THEN 2 ELSE 1
\* The text of a cell of one piece without the blanks around it
Trimmed(c) == strip(c[1])

\* C20: read_csv takes the first row as the row of namespaces exactly when
\* its first cell is "namespace" in any case: each column then has its
\* trimmed cell as namespace, the default namespace for a blank cell, and the
\* second row is the header; otherwise the first row is the header and there
\* are no namespaces. The header is trimmed, and the data rows are all the
\* rows after the header, as they are in the file.
C20_NamespaceRow ==
    (pc = "read_csv_done" /\ csv.err = "none") =>
        /\ csv.header = [i \in DOMAIN file_rows[HeaderRow] |-> Trimmed(file_rows[HeaderRow][i])]
        /\ csv.namespaces =
              IF HasNamespaceRow
              THEN [i \in DOMAIN file_rows[1] |->
                      IF Trimmed(file_rows[1][i]) = "" THEN NSCLIENTMAPANNOTATION
                      ELSE Trimmed(file_rows[1][i])]
              ELSE <<>>
        /\ csv.rows = SubSeq(file_rows, HeaderRow + 1, Len(file_rows))

\* A file with a row of namespaces, a header and a data row, with blanks
\* around the text of the cells
C20_Witness ==
    /\ pc = "read_csv_done" /\ csv.err = "none"
    /\ file_rows = << << <<"Namespace">>, <<"">> >>, << <<" a ">>, <<" a ">> >>,
                      << <<" a ">>, <<"">> >> >>
    /\ csv.namespaces = <<"Namespace", NSCLIENTMAPANNOTATION>>
    /\ csv.header = <<"a", "a">>
    /\ csv.rows = << << <<" a ">>, <<"">> >> >>

----------------------------------------------------------------------------
(* The hierarchy: get_children_recursive and target_iterator               *)
(* A container is <<OMERO_CLASS, id>>.                                     *)

CHILD_OBJECTS ==
    [Project |-> "Dataset", Dataset |-> "Image", Screen |-> "Plate",
     Plate |-> "Well", Well |-> "WellSample", WellSample |-> "Image"]

ALLOWED_PARAM ==
    [Project |-> {"Project", "Dataset", "Image"},
     Dataset |-> {"Dataset", "Image"},
     Image |-> {"Image"},
     Screen |-> {"Screen", "Plate", "Well", "Run", "Image"},
     Plate |-> {"Plate", "Well", "Run", "Image"},
     Well |-> {"Well", "Image"},
     Run |-> {"Run", "Image"},
     Tag |-> {"Project", "Dataset", "Image", "Screen", "Plate", "Well", "Run"}]

OMERO_CLASS(obj) == obj[1]
getId(obj) == obj[2]
\* source_object.listChildren(), in the order of the store
listChildren(h, obj) == IF obj \in DOMAIN h.kids THEN h.kids[obj] ELSE <<>>
\* wellsample.getImage()
getImage(h, ws) == <<"Image", h.image[getId(ws)]>>
\* plate_o.listPlateAcquisitions()
listPlateAcquisitions(h, plate) ==
    [i \in DOMAIN h.runs[getId(plate)] |-> <<"PlateAcquisition", h.runs[getId(plate)][i]>>]

WalkOk(objs) == [err |-> "none", objs |-> objs]
WalkError(e) == [err |-> e, objs |-> <<>>]

\* result.extend(...)
ExtendFront(result, more) == more \o result
Extend(result, more) == result \o more

RECURSIVE get_children_recursive(_, _, _)
RECURSIVE ExtendChildren(_, _, _, _)
\* get_children_recursive(source_object, target_type)
get_children_recursive(h, source_object, target_type) ==
    IF OMERO_CLASS(source_object) \notin DOMAIN CHILD_OBJECTS THEN WalkError("KeyError")
    ELSE IF CHILD_OBJECTS[OMERO_CLASS(source_object)] = target_type
         THEN IF OMERO_CLASS(source_object) # "WellSample"
              THEN WalkOk(listChildren(h, source_object))
              ELSE WalkOk(<<getImage(h, source_object)>>)
    ELSE ExtendChildren(h, listChildren(h, source_object), target_type, <<>>)
\* for child_obj in source_object.listChildren(): result.extend(...)
ExtendChildren(h, children, target_type, result) ==
    IF children = <<>> THEN WalkOk(result)
    ELSE LET r == get_children_recursive(h, Head(children), target_type) IN
         IF r.err # "none" THEN r
         ELSE ExtendChildren(h, Tail(children), target_type, Extend(result, r.objs))

\* len(list(plate_o.listPlateAcquisitions())) > 1
NeedsRunFilterNever(h, plate_o) == FALSE
NeedsRunFilter(h, plate_o) == Len(listPlateAcquisitions(h, plate_o)) > 1

RECURSIVE FilterRun(_, _, _)
\* filter(lambda x: x._obj.plateAcquisition._id._val == run_id, wellsamp_l);
\* a well sample with no run has plateAcquisition None
FilterRun(h, wellsamp_l, run_id) ==
    IF wellsamp_l = <<>> THEN WalkOk(<<>>)
    ELSE IF h.run[getId(Head(wellsamp_l))] = 0 THEN WalkError("AttributeError")
    ELSE LET r == FilterRun(h, Tail(wellsamp_l), run_id) IN
         IF r.err # "none" THEN r
         ELSE WalkOk((IF h.run[getId(Head(wellsamp_l))] = run_id
                      THEN <<Head(wellsamp_l)>> ELSE <<>>) \o r.objs)

\* conn.getObjectsByAnnotations(target_type, [tag id]), loaded again by id
getObjectsByAnnotations(h, target_type) ==
    LET ids == {getId(o) : o \in {x \in h.tagged : OMERO_CLASS(x) = target_type}}
        l == Ascending(ids)
    IN [i \in DOMAIN l |-> <<target_type, l[i]>>]

\* target_iterator(conn, source_object, target_type, is_tag): the objects it
\* yields, or the error its first step raises
target_iterator(h, source_object, target_type, is_tag) ==
    IF target_type = OMERO_CLASS(source_object) THEN WalkOk(<<source_object>>)
    ELSE IF OMERO_CLASS(source_object) = "PlateAcquisition"
    THEN LET plate_o == <<"Plate", h.plateOf[getId(source_object)]>>
             all == get_children_recursive(h, plate_o, "WellSample")
             wellsamp_l == IF all.err = "none" /\ NeedsRunFilter(h, plate_o)
                           THEN FilterRun(h, all.objs, getId(source_object))
                           ELSE all
         IN IF wellsamp_l.err # "none" THEN wellsamp_l
            ELSE WalkOk([i \in DOMAIN wellsamp_l.objs |-> getImage(h, wellsamp_l.objs[i])])
    ELSE IF target_type = "PlateAcquisition"
    THEN LET plate_l == IF OMERO_CLASS(source_object) = "Screen"
                        THEN get_children_recursive(h, source_object, "Plate")
                        ELSE IF OMERO_CLASS(source_object) = "Plate"
                        THEN WalkOk(<<source_object>>)
                        ELSE WalkError("UnboundLocalError")
         IN IF plate_l.err # "none" THEN plate_l
            ELSE WalkOk(Flatten([i \in DOMAIN plate_l.objs |->
                                   listPlateAcquisitions(h, plate_l.objs[i])]))
    ELSE IF is_tag THEN WalkOk(getObjectsByAnnotations(h, target_type))
    ELSE get_children_recursive(h, source_object, target_type)

\* Data_Type and Target Data_Type as parameters_parsing hands them on
ClassOfParam(t) == CASE t = "Tag" -> "TagAnnotation"
                     [] t = "Run" -> "PlateAcquisition"
                     [] OTHER -> t

----------------------------------------------------------------------------
(* Stores of containers                                                    *)

MaxKids == 2
MaxRuns == 2

\* Sequences without repeats of at most n elements of S
DistinctSeqs(S, n) ==
    UNION {{q \in [1..k -> S] : \A i, j \in 1..k : i # j => q[i] # q[j]} : k \in 0..n}
Orders(S) == {q \in DistinctSeqs(S, Cardinality(S)) : Len(q) = Cardinality(S)}

\* One project, two datasets and three images; an image may be in both datasets
ProjectStores ==
    {[nodes |-> {<<"Project", 1>>, <<"Dataset", 1>>, <<"Dataset", 2>>, <<"Image", 1>>,
                 <<"Image", 2>>, <<"Image", 3>>, <<"TagAnnotation", 1>>},
      kids |-> (<<"Project", 1>> :> [i \in DOMAIN pk |-> <<"Dataset", pk[i]>>])
               @@ (<<"Dataset", 1>> :> [i \in DOMAIN d1 |-> <<"Image", d1[i]>>])
               @@ (<<"Dataset", 2>> :> [i \in DOMAIN d2 |-> <<"Image", d2[i]>>]),
      image |-> EmptyFn, run |-> EmptyFn, runs |-> EmptyFn, plateOf |-> EmptyFn,
      tagged |-> tg] :
        pk \in DistinctSeqs({1, 2}, MaxKids),
        d1 \in DistinctSeqs({1, 2, 3}, MaxKids),
        d2 \in DistinctSeqs({1, 2, 3}, MaxKids),
        tg \in {{}, {<<"Image", 3>>, <<"Image", 1>>, <<"Dataset", 2>>}}}

\* One screen with two plates: plate 1 has wells 1 and 2 with the well samples
\* 1, 2 and 3 and up to MaxRuns runs, plate 2 has well 3 with well sample 4 and
\* one run. A well sample belongs to a run of its plate or to none (0).
ScreenStores ==
    {[nodes |-> {<<"Screen", 1>>, <<"Plate", 1>>, <<"Plate", 2>>, <<"Well", 1>>,
                 <<"Well", 2>>, <<"Well", 3>>, <<"TagAnnotation", 1>>}
                \cup {<<"PlateAcquisition", r>> : r \in (1..n) \cup {MaxRuns + 1}}
                \cup {<<"Image", i>> : i \in 1..4},
      kids |-> (<<"Screen", 1>> :> [i \in DOMAIN sk |-> <<"Plate", sk[i]>>])
               @@ (<<"Plate", 1>> :> [i \in DOMAIN pk |-> <<"Well", pk[i]>>])
               @@ (<<"Plate", 2>> :> << <<"Well", 3>> >>)
               @@ (<<"Well", 1>> :> [i \in DOMAIN wk |-> <<"WellSample", wk[i]>>])
               @@ (<<"Well", 2>> :> << <<"WellSample", 3>> >>)
               @@ (<<"Well", 3>> :> << <<"WellSample", 4>> >>),
      image |-> [w \in 1..4 |-> w],
      run |-> [w \in 1..4 |-> IF w = 4 THEN r4 ELSE r123[w]],
      runs |-> (1 :> [i \in 1..n |-> i]) @@ (2 :> <<MaxRuns + 1>>),
      plateOf |-> [r \in (1..n) \cup {MaxRuns + 1} |-> IF r = MaxRuns + 1 THEN 2 ELSE 1],
      tagged |-> {<<"Plate", 2>>, <<"Well", 1>>, <<"PlateAcquisition", MaxRuns + 1>>}] :
        sk \in Orders({1, 2}), pk \in Orders({1, 2}), wk \in Orders({1, 2}),
        n \in 0..MaxRuns, r123 \in [1..3 -> 0..MaxRuns], r4 \in {0, MaxRuns + 1}}
ScreenStoresOk == {h \in ScreenStores : \A w \in 1..3 : h.run[w] <= Len(h.runs[1])}

WalkTypes == {"Project", "Dataset", "Image", "Screen", "Plate", "Well", "WellSample",
              "PlateAcquisition"}

InitWalk ==
    /\ pc = "walk"
    /\ hier \in ProjectStores \cup ScreenStoresOk
    /\ walk = [fn |-> "none"]
    /\ TagDictIdle /\ StoreIdle /\ CallIdle /\ CsvIdle /\ MainIdle

\* target_iterator as main_loop calls it, for parameters that passed the
\* ALLOWED_PARAM check of parameters_parsing
TargetIterator ==
    /\ pc = "walk"
    /\ walk.fn = "none"
    /\ \E st \in DOMAIN ALLOWED_PARAM :
         \E tt \in ALLOWED_PARAM[st] :
           \E src \in {o \in hier.nodes : OMERO_CLASS(o) = ClassOfParam(st)} :
             walk' = [fn |-> "target_iterator", source |-> src,
                      target_type |-> ClassOfParam(tt), is_tag |-> (st = "Tag"),
                      res |-> target_iterator(hier, src, ClassOfParam(tt), st = "Tag")]
    /\ UNCHANGED <<pc, hier, tagVars, storeVars, callVars, csvVars, mainVars>>

\* get_children_recursive on a container of the store and a target type
GetChildrenRecursive ==
    /\ pc = "walk"
    /\ walk.fn = "none"
    /\ \E src \in {o \in hier.nodes : OMERO_CLASS(o) \in DOMAIN CHILD_OBJECTS \cup {"Image"}} :
         \E tt \in WalkTypes :
             walk' = [fn |-> "get_children_recursive", source |-> src,
                      target_type |-> tt, is_tag |-> FALSE,
                      res |-> get_children_recursive(hier, src, tt)]
    /\ UNCHANGED <<pc, hier, tagVars, storeVars, callVars, csvVars, mainVars>>

NextWalk == TargetIterator \/ GetChildrenRecursive
SpecWalk == InitWalk /\ [][NextWalk]_vars

\* Well samples of a plate, and the elements of a sequence
WellSamplesOf(h, plate) ==
    {ws \in DOMAIN h.image :
        \E i \in DOMAIN h.kids[plate] :
            \E k \in DOMAIN h.kids[h.kids[plate][i]] :
                h.kids[h.kids[plate][i]][k] = <<"WellSample", ws>>}
Range(q) == {q[i] : i \in DOMAIN q}
WalkedPlate == <<"Plate", hier.plateOf[getId(walk.source)]>>
RunWalk ==
    /\ walk.fn = "target_iterator"
    /\ OMERO_CLASS(walk.source) = "PlateAcquisition"
    /\ walk.target_type = "Image"

RECURSIVE ChainDist(_, _)
ChainDist(s, t) ==
    IF s \notin DOMAIN CHILD_OBJECTS THEN -1
    ELSE IF CHILD_OBJECTS[s] = t THEN 1
    ELSE IF ChainDist(CHILD_OBJECTS[s], t) = -1 THEN -1
    ELSE ChainDist(CHILD_OBJECTS[s], t) + 1

\* The containers n levels below those of level, level by level
RECURSIVE Descend(_, _, _)
Descend(h, level, n) ==
    IF n = 0 THEN level
    ELSE Descend(h,
                 Flatten([i \in DOMAIN level |->
                            IF OMERO_CLASS(level[i]) = "WellSample"
                            THEN <<getImage(h, level[i])>>
                            ELSE listChildren(h, level[i])]),
                 n - 1)

\* C7: for a source strictly above the target type on its chain,
\* get_children_recursive returns every target reachable from the source,
\* once per path, the targets under an earlier child before those of a later.
C7_DepthFirst ==
    (walk.fn = "get_children_recursive"
       /\ ChainDist(OMERO_CLASS(walk.source), walk.target_type) >= 1) =>
        /\ walk.res.err = "none"
        /\ walk.res.objs =
              Descend(hier, <<walk.source>>,
                      ChainDist(OMERO_CLASS(walk.source), walk.target_type))

\* Project 1 lists dataset 2 before dataset 1, and both hold images
C7_Witness ==
    /\ walk.fn = "get_children_recursive"
    /\ walk.source = <<"Project", 1>> /\ walk.target_type = "Image"
    /\ hier.kids[<<"Project", 1>>] = << <<"Dataset", 2>>, <<"Dataset", 1>> >>
    /\ walk.res.objs = << <<"Image", 3>>, <<"Image", 1>>, <<"Image", 1>>, <<"Image", 2>> >>

----------------------------------------------------------------------------
(* parameters_parsing (KeyVal_from_csv.py)                                 *)

\* f with f[k] = v
Put(f, k, v) == [x \in DOMAIN f \cup {k} |-> IF x = k THEN v ELSE f[x]]

\* params["Target Data_Type"].split(" ")[1] on the entries of the menu
TargetOfMenu(t) == CASE t = "- Dataset" -> "Dataset"
                     [] t = "-- Image" -> "Image"
                     [] t = "- Plate" -> "Plate"
                     [] t = "-- Well" -> "Well"
                     [] t = "-- Run" -> "Run"
                     [] t = "-- Acquisition" -> "Acquisition"
                     [] t = "--- Image" -> "Image"
                     [] OTHER -> t

\* x.replace('<ID>', id_col).replace('<NAME>', name_col)
ReplacePlaceholders(x, id_col, name_col) == CASE x = "<ID>" -> id_col
                                              [] x = "<NAME>" -> name_col
                                              [] OTHER -> x

\* params["Separator"] after "guess" became None and "TAB" a tabulation
SeparatorOf(sep) == CASE sep = "guess" -> None
                      [] sep = "TAB" -> "\t"
                      [] OTHER -> sep

\* "sep in split_on" for a split_on that is empty or one character
InText(sep, split_on) == split_on # "" /\ sep = split_on

ParseError(e) == [err |-> e]

\* parameters_parsing(client) on the inputs p of the client.  File_Annotation
\* is the text of the input cut at its commas, <<>> when the input is not
\* given; File_Annotation_multiplied is FALSE where the key is not set.
parameters_parsing(p) ==
    LET target == IF p.Target_Data_Type = "<on current>" THEN p.Data_Type
                  ELSE TargetOfMenu(p.Target_Data_Type)
        file_ids == IF Len(p.File_Annotation) = 1
                    THEN [i \in DOMAIN p.IDs |-> int(p.File_Annotation[1])]
                    ELSE [i \in DOMAIN p.File_Annotation |-> int(p.File_Annotation[i])]
    IN IF target \notin ALLOWED_PARAM[p.Data_Type] THEN ParseError("AssertionError")
       ELSE IF p.Data_Type = "Tag" THEN ParseError("TypeError")
       ELSE IF p.File_Annotation = <<>> THEN ParseError("TypeError")
       ELSE IF \E i \in DOMAIN file_ids : file_ids[i] = -1 THEN ParseError("ValueError")
       ELSE IF Len(file_ids) # Len(p.IDs) THEN ParseError("AssertionError")
       ELSE IF /\ SeparatorOf(p.Separator) # None
               /\ InText(SeparatorOf(p.Separator), p.Split_value_on)
            THEN ParseError("AssertionError")
       ELSE [err |-> "none",
             Data_Type |-> IF p.Data_Type = "Run" THEN "Acquisition"
                           ELSE ClassOfParam(p.Data_Type),
             Target_Data_Type |-> ClassOfParam(target),
             IDs |-> p.IDs,
             File_Annotation |-> file_ids,
             File_Annotation_multiplied |-> (Len(p.File_Annotation) = 1),
             Namespace |-> p.Namespace,
             Separator |-> SeparatorOf(p.Separator),
             Columns_to_exclude |->
                 [i \in DOMAIN p.Columns_to_exclude |->
                    ReplacePlaceholders(p.Columns_to_exclude[i], p.Target_ID_colname,
                                        p.Target_name_colname)],
             Target_ID_colname |-> p.Target_ID_colname,
             Target_name_colname |-> p.Target_name_colname,
             Exclude_empty_values |-> p.Exclude_empty_values,
             Attach_csv_to_parents |-> p.Attach_csv_to_parents,
             Split_value_on |-> p.Split_value_on,
             Create_new_Tags |-> p.Create_new_Tags]

----------------------------------------------------------------------------
(* preprocess_tag_rows (KeyVal_from_csv.py)                                *)

\* re_match.groups() of regx_tag on a reference of the model: the name, the
\* digits in brackets and the tagset in brackets, None for an absent group
regx_tag(val) ==
    CASE val = "X"    -> [tagname |-> "X", tagid |-> None, tagset |-> None]
      [] val = "N"    -> [tagname |-> "N", tagid |-> None, tagset |-> None]
      [] val = "X[S]" -> [tagname |-> "X", tagid |-> None, tagset |-> "S"]
      [] val = "X[T]" -> [tagname |-> "X", tagid |-> None, tagset |-> "T"]
      [] val = "N[S]" -> [tagname |-> "N", tagid |-> None, tagset |-> "S"]
      [] val = "N[T]" -> [tagname |-> "N", tagid |-> None, tagset |-> "T"]
      [] val = "X[1]" -> [tagname |-> "X", tagid |-> "1", tagset |-> None]
      [] val = "N[1]" -> [tagname |-> "N", tagid |-> "1", tagset |-> None]
      [] val = "[1]"  -> [tagname |-> None, tagid |-> "1", tagset |-> None]
      [] val = "X[9]" -> [tagname |-> "X", tagid |-> "9", tagset |-> None]
      [] val = "[S]"  -> [tagname |-> None, tagid |-> None, tagset |-> "S"]
      [] OTHER        -> [tagname |-> None, tagid |-> None, tagset |-> None]

\* The four dictionaries and the tags of the store as one value
Registry ==
    [tag_d |-> tag_d, tagset_d |-> tagset_d, tagtree_d |-> tagtree_d,
     tagid_d |-> tagid_d, tags |-> tags, tagLinks |-> tagLinks, next |-> nextAnnId]

\* tag_o = TagAnnotationWrapper(conn); tag_o.setValue(name); tag_o.save();
\* tagid_d[tag_o.id] = tag_o
SaveTag(reg, name, is_set) ==
    [reg EXCEPT !.tags = Put(@, reg.next, [value |-> name, own |-> TRUE, isSet |-> is_set]),
                !.tagid_d = @ \cup {reg.next},
                !.next = @ + 1]

Resolved(reg, ids) == [err |-> "none", reg |-> reg, ids |-> ids]
Unresolved(reg, e) == [err |-> e, reg |-> reg, ids |-> <<>>]

\* A new tag: saved, kept in tagid_d, and tag_d[tagname] = tag_o.id
NewTag(reg, tagname) ==
    [SaveTag(reg, tagname, FALSE) EXCEPT !.tag_d = Put(@, tagname, reg.next)]
\* A new tagset: saved, kept in tagid_d, and tagset_d[tagset] = tagset_o.id
NewTagset(reg, tagset) ==
    [SaveTag(reg, tagset, TRUE) EXCEPT !.tagset_d = Put(@, tagset, reg.next)]
\* update.saveObject(link); tagtree_d[tagset][tagname] = tag_o.id
LinkNewTag(reg, tagname, tagset, id) ==
    Resolved([reg EXCEPT !.tagLinks = @ \cup {<<reg.tagset_d[tagset], id>>},
                         !.tagtree_d = Put(@, <<tagset, tagname>>, id)],
             <<str(id)>>)

\* "if not has_tagset": the tag of that name, created if that is allowed
ResolvePlain(tagname, reg, create_new_tags) ==
    IF tagname \in DOMAIN reg.tag_d THEN Resolved(reg, <<str(reg.tag_d[tagname])>>)
    ELSE IF ~create_new_tags THEN Unresolved(reg, "AssertionError")
    ELSE Resolved(NewTag(reg, tagname), <<str(reg.next)>>)

\* "else:  # has tagset": the tag of that name in that tagset, created with
\* the tagset if it has to be and that is allowed
ResolveInSet(tagname, tagset, reg, create_new_tags) ==
    IF tagset \in DOMAIN reg.tagset_d /\ <<tagset, tagname>> \in DOMAIN reg.tagtree_d
    THEN Resolved(reg, <<str(reg.tagtree_d[<<tagset, tagname>>])>>)
    ELSE IF ~create_new_tags THEN Unresolved(reg, "AssertionError")
    ELSE LinkNewTag(IF tagset \in DOMAIN reg.tagset_d THEN NewTag(reg, tagname)
                    ELSE NewTagset(NewTag(reg, tagname), tagset),
                    tagname, tagset, reg.next)

\* The body of "for val in values" after the match: g are the groups
ResolveGroups(g, reg, create_new_tags) ==
    IF g.tagid # None
    THEN IF int(g.tagid) \notin reg.tagid_d THEN Unresolved(reg, "AssertionError")
         ELSE Unresolved(reg, "KeyError")
    ELSE IF g.tagname = None \/ g.tagname = "" THEN Resolved(reg, <<>>)
    ELSE IF ~(g.tagset # None /\ g.tagset # "")
         THEN ResolvePlain(g.tagname, reg, create_new_tags)
    ELSE ResolveInSet(g.tagname, g.tagset, reg, create_new_tags)

\* The body of "for val in values": what one reference adds to tagid_l
ResolveRef(val, reg, create_new_tags) == ResolveGroups(regx_tag(val), reg, create_new_tags)

RECURSIVE ResolveCell(_, _, _, _)
\* "for val in values" on the references of one cell
ResolveCell(values, reg, create_new_tags, tagid_l) ==
    IF values = <<>> THEN Resolved(reg, tagid_l)
    ELSE LET r == ResolveRef(Head(values), reg, create_new_tags) IN
         IF r.err # "none" THEN r
         ELSE ResolveCell(Tail(values), r.reg, create_new_tags, tagid_l \o r.ids)

RECURSIVE ResolveCells(_, _, _, _)
\* The loops over the rows and over the "tag" columns, cells being their
\* <<row, column>> pairs in that order: row[col_idx] = split_on.join(tagid_l)
ResolveCells(cells, rows, reg, create_new_tags) ==
    IF cells = <<>> THEN [err |-> "none", rows |-> rows, reg |-> reg]
    ELSE LET rc == Head(cells)
             r == ResolveCell(rows[rc[1]][rc[2]], reg, create_new_tags, <<>>)
         IN IF r.err # "none" THEN [err |-> r.err, rows |-> rows, reg |-> r.reg]
            ELSE ResolveCells(Tail(cells),
                              [rows EXCEPT ![rc[1]][rc[2]] =
                                  IF r.ids = <<>> THEN EmptyCell ELSE r.ids],
                              r.reg, create_new_tags)

\* preprocess_tag_rows(conn, header, rows, tag_d, tagset_d, tagtree_d, tagid_d,
\*                     create_new_tags, split_on)
preprocess_tag_rows(header, rows, reg, create_new_tags) ==
    LET col_idxs == Ascending({i \in DOMAIN header : lower(header[i]) = "tag"})
        cells == Flatten([r \in DOMAIN rows |->
                            [k \in DOMAIN col_idxs |-> <<r, col_idxs[k]>>]])
    IN ResolveCells(cells, rows, reg, create_new_tags)

----------------------------------------------------------------------------
(* main_loop (KeyVal_from_csv.py)                                          *)

\* omero_obj.getWellPos().upper() on the positions of the model
upper(s) == CASE s = "a1" -> "A1"
              [] OTHER -> s

\* get_obj_name(omero_obj)
get_obj_name(h, omero_obj) ==
    IF OMERO_CLASS(omero_obj) = "Well" THEN upper(h.names[omero_obj])
    ELSE h.names[omero_obj]

\* header.index(el) counted from 1, 0 where el is not in the header (the -1
\* of idx_id and idx_name)
IndexOf(header, el) ==
    IF \E i \in DOMAIN header : header[i] = el
    THEN SetMin({i \in DOMAIN header : header[i] = el})
    ELSE 0

\* {name for name in name_list if name_list.count(name) > 1}
CsvDuplicates(rows, idx) ==
    {rows[i][idx] : i \in {j \in DOMAIN rows :
                              \E k \in DOMAIN rows : k # j /\ rows[k][idx] = rows[j][idx]}}

\* A dictionary by name in which a later target replaces one of the same name
NameDictMerging(h, objs, target_d) ==
    [err |-> "none",
     d |-> [k \in {<<get_obj_name(h, objs[i])>> : i \in DOMAIN objs} |->
              objs[SetMax({i \in DOMAIN objs : <<get_obj_name(h, objs[i])>> = k})]]]

RECURSIVE NameDict(_, _, _)
\* target_d of the targets identified by name: the keys are the cells a row
\* can hold; a second target with a name already seen fails the assertion
NameDict(h, objs, target_d) ==
    IF objs = <<>> THEN [err |-> "none", d |-> target_d]
    ELSE LET name == <<get_obj_name(h, Head(objs))>> IN
         IF name \in DOMAIN target_d THEN [err |-> "AssertionError", d |-> target_d]
         ELSE NameDict(h, Tail(objs), Put(target_d, name, Head(objs)))

\* A dictionary keyed by the position of the target in the enumeration
IdDictByPosition(objs) ==
    [err |-> "none", d |-> [k \in {<<str(i)>> : i \in DOMAIN objs} |-> objs[int(k[1])]]]

\* {str(target_obj.getId()): target_obj for target_obj in target_obj_l}
IdDict(objs) ==
    [err |-> "none",
     d |-> [k \in {<<str(getId(objs[i]))>> : i \in DOMAIN objs} |->
              objs[SetMax({i \in DOMAIN objs : <<str(getId(objs[i]))>> = k})]]]

\* conn.getObjects(source_type, source_ids): the objects that exist, by id
getObjects(h, source_type, source_ids) ==
    LET ids == {source_ids[i] : i \in DOMAIN source_ids}
        l == Ascending({getId(o) : o \in {x \in h.nodes : OMERO_CLASS(x) = source_type
                                                        /\ getId(x) \in ids}})
    IN [i \in DOMAIN l |-> <<source_type, l[i]>>]

\* parsed_row, parsed_head and parsed_ns of a row: the columns of ok_idxs,
\* each cut into its pieces when split_on is given
ParsedRow(row, header, namespaces, ok_idxs, split_on, exclude_empty_value) ==
    LET cols == IF split_on # ""
                THEN Flatten([k \in DOMAIN ok_idxs |->
                                [j \in DOMAIN row[ok_idxs[k]] |-> <<ok_idxs[k], j>>]])
                ELSE [k \in DOMAIN ok_idxs |-> <<ok_idxs[k], 0>>]
    IN [row |-> [k \in DOMAIN cols |->
                   IF split_on # "" THEN <<StripCell(row[cols[k][1]])[cols[k][2]]>>
                   ELSE row[cols[k][1]]],
        header |-> [k \in DOMAIN cols |-> header[cols[k][1]]],
        namespaces |-> [k \in DOMAIN cols |-> namespaces[cols[k][1]]],
        exclude_empty_value |-> exclude_empty_value,
        split_on |-> split_on]

\* A link_file_ann that does not look for the links there are
link_file_annAlways(st, object_type, object_, file_ann) ==
    [st EXCEPT !.links = Append(@, <<object_, file_ann>>)]

\* link_file_ann(conn, object_type, object_, file_ann)
link_file_ann(st, object_type, object_, file_ann) ==
    IF object_type = "TagAnnotation" THEN st
    ELSE IF \E i \in DOMAIN st.links : st.links[i] = <<object_, file_ann>> THEN st
    ELSE [st EXCEPT !.links = Append(@, <<object_, file_ann>>)]

\* What the store holds, to tell later what was written since
Mark == [links |-> Len(annLinks), next |-> nextAnnId, tags |-> Cardinality(DOMAIN tags),
         tagLinks |-> Cardinality(tagLinks)]

NoMessage == [updated |-> -1, processed |-> -1, missing |-> -1, by |-> ""]
NoObject == <<>>

\* The local variables of main_loop before its loop over the sources
RunStart ==
    [err |-> "none", where |-> "",
     ntarget_processed |-> 0, ntarget_updated |-> 0,
     missing_names |-> {}, processed_names |-> {}, total_missing_names |-> 0,
     result_obj |-> NoObject, tags_loaded |-> FALSE,
     source_objects |-> <<>>, src |-> 0,
     rows |-> <<>>, header |-> <<>>, namespaces |-> <<>>, target_d |-> EmptyFn,
     use_id |-> FALSE, idx_id |-> 0, ok_idxs |-> <<>>, row |-> 0,
     ntarget_updated_curr |-> 0, message |-> NoMessage,
     matched |-> 0, unmatched |-> 0, skipped |-> 0,
     mark0 |-> Mark, mark |-> Mark]

Fail(e, w) == [run EXCEPT !.err = e, !.where = w]

\* The local variables at the top of the body of the loop over the sources
Begun == [run EXCEPT !.mark = Mark, !.ntarget_updated_curr = 0]
BeginFailed(e, w) == [run |-> [Begun EXCEPT !.err = e, !.where = w], reg |-> Registry]

\* The dictionaries preprocess_tag_rows is given: those of get_tag_dict if
\* "tag_d is None" and the header has a tag column
LoadsTags(header) == ~run.tags_loaded /\ \E i \in DOMAIN header : lower(header[i]) = "tag"
TagsFor(header, dicts) ==
    IF LoadsTags(header)
    THEN [Registry EXCEPT !.tag_d = dicts.tag_d, !.tagset_d = dicts.tagset_d,
                          !.tagtree_d = dicts.tagtree_d, !.tagid_d = dicts.tagid_d]
    ELSE Registry

\* cols_to_ignore, and ok_idxs: the columns that are not ignored
ColsToIgnore(header, to_exclude) ==
    {IndexOf(header, to_exclude[i]) : i \in DOMAIN to_exclude} \ {0}
OkIdxs(header, to_exclude) == Ascending((DOMAIN header) \ ColsToIgnore(header, to_exclude))

\* "if len(namespaces) == 0: namespaces = [namespace] * len(header)"
NamespacesOf(c) ==
    IF Len(c.namespaces) = 0 THEN [i \in DOMAIN c.header |-> script_params.Namespace]
    ELSE c.namespaces

\* After preprocess_tag_rows: the rows are ready for the loop over them
TagsPrepared(c, use_id, key_idx, d, pre) ==
    [run |-> [Begun EXCEPT
                !.err = pre.err,
                !.where = IF pre.err # "none" THEN "preprocess_tag_rows" ELSE "",
                !.ntarget_processed = @ + Cardinality(DOMAIN d.d),
                !.tags_loaded = @ \/ LoadsTags(c.header),
                !.header = c.header, !.namespaces = NamespacesOf(c),
                !.target_d = d.d, !.use_id = use_id, !.idx_id = key_idx,
                !.ok_idxs = OkIdxs(c.header, script_params.Columns_to_exclude),
                !.rows = pre.rows, !.row = 1],
     reg |-> pre.reg]

\* After target_d is built: the tags are read if needed and the rows prepared
TargetsKeyed(c, use_id, key_idx, d, dicts) ==
    IF d.err # "none" THEN BeginFailed("AssertionError", "target_duplicates")
    ELSE TagsPrepared(c, use_id, key_idx, d,
                      preprocess_tag_rows(c.header, c.rows, TagsFor(c.header, dicts),
                                          script_params.Create_new_Tags))

\* The targets t of the source are put in target_d by id or by name
TargetsListed(c, use_id, key_idx, t, dicts) ==
    IF t.err # "none" THEN BeginFailed(t.err, "target_iterator")
    ELSE TargetsKeyed(c, use_id, key_idx,
                      IF use_id THEN IdDict(t.objs) ELSE NameDict(hier, t.objs, EmptyFn),
                      dicts)

\* The match column: the id column if the header has it, else the name
\* column, whose cells must then differ; the targets are listed after that
ColumnsFound(c, idx_id, idx_name, dicts) ==
    IF idx_id = 0 /\ idx_name = 0 THEN BeginFailed("AssertionError", "columns")
    ELSE IF idx_id = 0 /\ CsvDuplicates(c.rows, idx_name) # {}
         THEN BeginFailed("AssertionError", "csv_duplicates")
    ELSE TargetsListed(c, idx_id # 0, IF idx_id # 0 THEN idx_id ELSE idx_name,
                       target_iterator(hier, run.source_objects[run.src + 1],
                                       script_params.Target_Data_Type,
                                       script_params.Data_Type = "TagAnnotation"),
                       dicts)

\* After read_csv returned c
CsvRead(c, dicts) ==
    IF c.err # "none" THEN BeginFailed(c.err, "read_csv")
    ELSE ColumnsFound(c, IndexOf(c.header, script_params.Target_ID_colname),
                      IndexOf(c.header, script_params.Target_name_colname), dicts)

\* The part of the body of "for source_object, file_ann_id in zip(...)" that
\* comes before the loop over the rows, for the dictionaries dicts that
\* get_tag_dict returns if it is called: the local variables and the registry
\* it leaves
BeginSourceOutcome(dicts) == CsvRead(read_csv(file_rows), dicts)

----------------------------------------------------------------------------
(* Runs of KeyVal_from_csv.py: the stores and the inputs of the client     *)

MaxRunRows == 2

\* The id of the FileAnnotation that holds the CSV: the one after the tags
FileAnnOf(tg) == Cardinality(DOMAIN tg) + 1

\* Two datasets and three images: dataset 1 holds images 1 and 2, dataset 2
\* holds image 3 and perhaps image 1; image 1 is called A
DatasetStore(n2, n3, d2) ==
    [nodes |-> {<<"Dataset", 1>>, <<"Dataset", 2>>, <<"Image", 1>>, <<"Image", 2>>,
                <<"Image", 3>>},
     kids |-> (<<"Dataset", 1>> :> << <<"Image", 1>>, <<"Image", 2>> >>)
              @@ (<<"Dataset", 2>> :> [i \in DOMAIN d2 |-> <<"Image", d2[i]>>]),
     image |-> EmptyFn, run |-> EmptyFn, runs |-> EmptyFn, plateOf |-> EmptyFn,
     tagged |-> {},
     names |-> (<<"Image", 1>> :> "A") @@ (<<"Image", 2>> :> n2) @@ (<<"Image", 3>> :> n3)
               @@ (<<"Dataset", 1>> :> "d1") @@ (<<"Dataset", 2>> :> "d2")]
DatasetStoresById == {DatasetStore("B", "C", d2) : d2 \in {<<3>>, <<3, 1>>}}
DatasetStoresByName ==
    {DatasetStore("B", "C", <<3>>), DatasetStore("A", "C", <<3>>),
     DatasetStore("B", "A", <<3, 1>>), DatasetStore("B", "C", <<3, 1>>)}

\* One screen with two plates of one well each, at position A1 on plate 1
WellStore(pos2) ==
    [nodes |-> {<<"Screen", 1>>, <<"Plate", 1>>, <<"Plate", 2>>, <<"Well", 1>>,
                <<"Well", 2>>},
     kids |-> (<<"Screen", 1>> :> << <<"Plate", 1>>, <<"Plate", 2>> >>)
              @@ (<<"Plate", 1>> :> << <<"Well", 1>> >>)
              @@ (<<"Plate", 2>> :> << <<"Well", 2>> >>),
     image |-> EmptyFn, run |-> EmptyFn, runs |-> (1 :> <<>>) @@ (2 :> <<>>),
     plateOf |-> EmptyFn, tagged |-> {},
     names |-> (<<"Well", 1>> :> "A1") @@ (<<"Well", 2>> :> pos2)
               @@ (<<"Screen", 1>> :> "s1") @@ (<<"Plate", 1>> :> "p1")
               @@ (<<"Plate", 2>> :> "p2")]
WellStores == {WellStore(pos2) : pos2 \in {"A1", "B1"}}

\* The tags of the store: the tag X, owned by the user or not, in the tagset S
RunTags(own1) ==
    (1 :> [value |-> "X", own |-> own1, isSet |-> FALSE])
    @@ (2 :> [value |-> "S", own |-> TRUE, isSet |-> TRUE])
RunTagLinks == {<<2, 1>>}

\* The inputs of the client with the defaults of the model
ClientInputs(data_type, ids, target) ==
    [Data_Type |-> data_type, IDs |-> ids, Target_Data_Type |-> target,
     File_Annotation |-> <<str(FileAnnOf(RunTags(TRUE)))>>,
     Namespace |-> NSCLIENTMAPANNOTATION,
     Separator |-> "guess",
     Columns_to_exclude |-> <<"<ID>", "<NAME>">>,
     Target_ID_colname |-> "ID", Target_name_colname |-> "NAME",
     Exclude_empty_values |-> FALSE, Attach_csv_to_parents |-> FALSE,
     Split_value_on |-> "", Create_new_Tags |-> FALSE]

\* The rows that have a cell of cols[i] in column i, and the files with the
\* header row and at most MaxRunRows of these rows
RowsOf(cols) ==
    {r \in [DOMAIN cols -> UNION {cols[i] : i \in DOMAIN cols}] :
        \A i \in DOMAIN cols : r[i] \in cols[i]}
FilesOf(header, cols) ==
    {<<[i \in DOMAIN header |-> <<header[i]>>]>> \o rs :
        rs \in UNION {[1..k -> RowsOf(cols)] : k \in 0..MaxRunRows}}

\* The run starts with these inputs, file, containers and tags
RunInput(p, f, h, own1, personal) ==
    /\ script_params = p
    /\ file_rows = f
    /\ hier = h
    /\ tags = RunTags(own1)
    /\ use_personal_tags = personal

IdCells == {<<"">>, <<"1">>, <<"3">>, <<"9">>}
DatasetInputs == {ClientInputs("Dataset", ids, "-- Image") : ids \in {<<1>>, <<1, 2>>}}

\* Targets given by id, with one column of values: whole cells with or
\* without the empty values, or cells cut at "Split value on"
RunsById ==
    (\E p \in {ClientInputs("Dataset", ids, "-- Image") : ids \in {<<2>>, <<1, 2>>}},
        ex \in BOOLEAN,
        f \in FilesOf(<<"ID", "K">>, <<IdCells, {<<"v">>, <<"">>}>>),
        h \in DatasetStoresById :
        RunInput([p EXCEPT !.Exclude_empty_values = ex], f, h, TRUE, FALSE))
    \/
    (\E p \in {ClientInputs("Dataset", ids, "-- Image") : ids \in {<<2>>, <<1, 2>>}},
        f \in FilesOf(<<"ID", "K">>, <<{<<"1">>, <<"3">>}, {<<"v">>, <<"v", "w">>}>>),
        h \in DatasetStoresById :
        RunInput([p EXCEPT !.Split_value_on = ";"], f, h, TRUE, FALSE))

\* Targets given by name
RunsByName ==
    (\E p \in DatasetInputs, at \in BOOLEAN,
        f \in FilesOf(<<"NAME", "K">>, <<{<<"">>, <<"A">>, <<"B">>}, {<<"v">>}>>),
        h \in DatasetStoresByName :
        RunInput([p EXCEPT !.Attach_csv_to_parents = at], f, h, TRUE, FALSE))
    \/
    (\E p \in DatasetInputs,
        f \in FilesOf(<<"NAME", "Tag">>, <<{<<"A">>, <<"B">>}, {<<"N">>}>>),
        h \in DatasetStoresByName :
        RunInput([p EXCEPT !.Create_new_Tags = TRUE], f, h, TRUE, FALSE))
    \/
    (\E f \in FilesOf(<<"NAME", "K">>, <<{<<"">>, <<"A1">>, <<"B1">>}, {<<"v">>}>>),
        h \in WellStores :
        RunInput(ClientInputs("Screen", <<1>>, "-- Well"), f, h, TRUE, FALSE))

\* A file with both columns, in either order, or with neither
RunsByBoth ==
    \E f \in FilesOf(<<"ID", "NAME", "K">>,
                     <<{<<"1">>, <<"9">>}, {<<"B">>, <<"">>}, {<<"v">>}>>)
             \cup FilesOf(<<"NAME", "ID", "K">>,
                          <<{<<"B">>, <<"">>}, {<<"1">>, <<"9">>}, {<<"v">>}>>),
       h \in {DatasetStore("B", "C", <<3>>), DatasetStore("A", "C", <<3>>)} :
        RunInput(ClientInputs("Dataset", <<1>>, "-- Image"), f, h, TRUE, FALSE)
RunsByNeither ==
    \E p \in DatasetInputs, f \in FilesOf(<<"K">>, <<{<<"v">>}>>) :
        RunInput(p, f, DatasetStore("B", "C", <<3>>), TRUE, FALSE)

\* A column of tag references
RunsWithTags ==
    (\E p \in DatasetInputs, cr \in BOOLEAN, own1 \in BOOLEAN, personal \in BOOLEAN,
        f \in FilesOf(<<"ID", "Tag">>,
                      <<{<<"1">>}, {<<"">>, <<"X">>, <<"N">>, <<"N[S]">>, <<"X[1]">>,
                                    <<"N[T]">>, <<"N", "N[S]">>,
                                    <<"X[T]", "X">>}>>) :
        RunInput([p EXCEPT !.Create_new_Tags = cr], f, DatasetStore("B", "C", <<3>>),
              own1, personal))

\* A row of namespaces above the header
RunsWithNamespaces ==
    (\E f \in FilesOf(<<"ID", "K", "L">>,
                      <<{<<"1">>}, {<<"v">>, <<"">>}, {<<"v">>, <<"">>}>>) :
        RunInput([ClientInputs("Dataset", <<1>>, "-- Image") EXCEPT
                  !.Exclude_empty_values = TRUE],
              << << <<"namespace">>, <<"n1">>, <<"n2">> >> >> \o f,
              DatasetStore("B", "C", <<3>>), TRUE, FALSE))

\* Inputs that parameters_parsing or the start of main_loop refuse
RunsRefused ==
    (\E p \in {[ClientInputs("Dataset", <<1, 2>>, "-- Image") EXCEPT !.File_Annotation = fa] :
                  fa \in {<<>>, <<"3", "3">>, <<"3", "3", "3">>, <<"1">>, <<"9">>, <<"x">>}}
              \cup {ClientInputs("Dataset", <<1>>, "Project"),
                    ClientInputs("Dataset", <<1>>, "<on current>"),
                    ClientInputs("Dataset", <<7>>, "-- Image"),
                    ClientInputs("Tag", <<1>>, "-- Image"),
                    [ClientInputs("Dataset", <<1>>, "-- Image") EXCEPT
                        !.Separator = ";", !.Split_value_on = ";"]} :
        RunInput(p, << << <<"ID">>, <<"K">> >>, << <<"1">>, <<"v">> >> >>,
              DatasetStore("B", "C", <<3>>), TRUE, FALSE))

RunInputs == RunsById \/ RunsByName \/ RunsByBoth \/ RunsByNeither
             \/ RunsWithTags \/ RunsWithNamespaces \/ RunsRefused

----------------------------------------------------------------------------
(* One run of KeyVal_from_csv.py                                           *)

\* The links of the store when the run starts: none, or, where the file may be
\* attached, dataset 1 may have it from an earlier run
LinksAtStart ==
    IF script_params.Attach_csv_to_parents
    THEN {<<>>, << <<(<<"Dataset", 1>>), FileAnnOf(tags)>> >>}
    ELSE {<<>>}

Init ==
    /\ pc = "parameters_parsing"
    /\ RunInputs
    /\ tagLinks = RunTagLinks
    /\ tag_d = EmptyFn /\ tagset_d = EmptyFn /\ tagtree_d = EmptyFn /\ tagid_d = {}
    /\ annLinks \in LinksAtStart /\ mapAnns = EmptyFn
    /\ nextAnnId = FileAnnOf(tags) + 1
    /\ run = RunStart
    /\ csv = CsvError("unread", NoMsg)
    /\ walk = None /\ CallIdle

\* params = parameters_parsing(client)
ParametersParsing ==
    /\ pc = "parameters_parsing"
    /\ LET r == parameters_parsing(script_params) IN
       IF r.err # "none"
       THEN /\ pc' = "failed"
            /\ run' = Fail(r.err, "parameters_parsing")
            /\ UNCHANGED script_params
       ELSE /\ pc' = "main_loop"
            /\ script_params' = r
            /\ UNCHANGED run
    /\ UNCHANGED <<tagVars, storeVars, callVars, csvVars, walkVars>>

\* main_loop up to its loop over the sources: reading the parameters, of which
\* "File_Annotation_multiplied" may not be set, and conn.getObjects
MainLoop ==
    /\ pc = "main_loop"
    /\ IF ~script_params.File_Annotation_multiplied
       THEN /\ pc' = "failed"
            /\ run' = Fail("KeyError", "main_loop")
       ELSE /\ pc' = "source"
            /\ run' = [run EXCEPT !.source_objects =
                          getObjects(hier, script_params.Data_Type, script_params.IDs)]
    /\ UNCHANGED <<script_params, tagVars, storeVars, callVars, csvVars, walkVars>>

\* A run that goes on to the rows after an error
SourceBegunGoingOn(o) ==
    /\ run' = o.run
    /\ pc' = "rows"
    /\ tag_d' = o.reg.tag_d
    /\ tagset_d' = o.reg.tagset_d
    /\ tagtree_d' = o.reg.tagtree_d
    /\ tagid_d' = o.reg.tagid_d
    /\ tags' = o.reg.tags
    /\ tagLinks' = o.reg.tagLinks
    /\ nextAnnId' = o.reg.next

\* What BeginSource leaves when the file is read
SourceBegun(o) ==
    /\ run' = o.run
    /\ pc' = IF o.run.err # "none" THEN "failed" ELSE "rows"
    /\ tag_d' = o.reg.tag_d
    /\ tagset_d' = o.reg.tagset_d
    /\ tagtree_d' = o.reg.tagtree_d
    /\ tagid_d' = o.reg.tagid_d
    /\ tags' = o.reg.tags
    /\ tagLinks' = o.reg.tagLinks
    /\ nextAnnId' = o.reg.next

\* The next source object: its file, the match column, the targets, the tags
BeginSource ==
    /\ pc = "source"
    /\ run.src < Len(run.source_objects)
    /\ run.src < Len(script_params.File_Annotation)
    /\ IF script_params.File_Annotation[run.src + 1] # FileAnnOf(RunTags(TRUE))
       THEN /\ pc' = "failed"
            /\ run' = Fail("AssertionError", "file_ann")
            /\ UNCHANGED <<tagVars, nextAnnId, csv>>
       ELSE /\ \E dicts \in get_tag_dict(tags, tagLinks, use_personal_tags) :
                  SourceBegun(BeginSourceOutcome(dicts))
            /\ csv' = read_csv(file_rows)
            /\ UNCHANGED use_personal_tags
    /\ UNCHANGED <<script_params, annLinks, mapAnns, callVars, file_rows, walkVars>>

\* A loop over the rows that keeps no record of the keys with a target
RowSeenNotProcessed(target_id, found) ==
    IF found
    THEN [run EXCEPT !.row = @ + 1, !.matched = @ + 1]
    ELSE [run EXCEPT !.row = @ + 1, !.unmatched = @ + 1,
                     !.missing_names = @ \cup {target_id}]

\* A loop over the rows that keeps no record of the keys without a target
RowSeenForgetting(target_id, found) ==
    [run EXCEPT !.row = @ + 1, !.matched = @ + BoolInt(found),
                !.unmatched = @ + BoolInt(~found),
                !.processed_names = IF found THEN @ \cup {target_id} ELSE @]

\* The row is counted: its key is in processed_names if it matched a target,
\* in missing_names (or counted) if not
RowSeen(target_id, found) ==
    IF found
    THEN [run EXCEPT !.row = @ + 1, !.matched = @ + 1,
                     !.processed_names = IF script_params.File_Annotation_multiplied
                                         THEN @ \cup {target_id} ELSE @]
    ELSE [run EXCEPT !.row = @ + 1, !.unmatched = @ + 1,
                     !.missing_names = IF script_params.File_Annotation_multiplied
                                       THEN @ \cup {target_id} ELSE @,
                     !.total_missing_names = IF script_params.File_Annotation_multiplied
                                             THEN @ ELSE @ + 1]

\* What the row leaves after annotate_object returned r for its target
RowAnnotated(seen, target_obj, r) ==
    /\ annLinks' = r.st.links
    /\ mapAnns' = r.st.maps
    /\ nextAnnId' = r.st.next
    /\ pc' = IF r.err # "none" THEN "failed" ELSE pc
    /\ run' = IF r.err # "none"
              THEN [seen EXCEPT !.err = r.err, !.where = "annotate_object"]
              ELSE IF r.updated
              THEN [seen EXCEPT !.result_obj = IF @ = NoObject THEN target_obj ELSE @,
                                !.ntarget_updated = @ + 1,
                                !.ntarget_updated_curr = @ + 1]
              ELSE seen

\* The body of "for row in rows" for a row with target_id in its match column
RowOf(row, target_id) ==
    IF target_id = EmptyCell
    THEN /\ run' = [run EXCEPT !.row = @ + 1, !.skipped = @ + 1]
         /\ UNCHANGED <<pc, storeVars>>
    ELSE IF target_id \notin DOMAIN run.target_d
    THEN /\ run' = RowSeen(target_id, FALSE)
         /\ UNCHANGED <<pc, storeVars>>
    ELSE RowAnnotated(RowSeen(target_id, TRUE), run.target_d[target_id],
                      annotate_object(ParsedRow(row, run.header, run.namespaces,
                                                run.ok_idxs, script_params.Split_value_on,
                                                script_params.Exclude_empty_values),
                                      run.target_d[target_id], tagid_d, Store))

\* One pass of "for row in rows"
ProcessRow ==
    /\ pc = "rows"
    /\ run.row <= Len(run.rows)
    /\ RowOf(run.rows[run.row], run.rows[run.row][run.idx_id])
    /\ UNCHANGED <<script_params, tagVars, callVars, csvVars, walkVars>>

\* After the rows of a source: the file is linked to it, on to the next source
EndSource ==
    /\ pc = "rows"
    /\ run.row > Len(run.rows)
    /\ LET source_object == run.source_objects[run.src + 1]
           st == IF run.ntarget_updated_curr > 0 /\ script_params.Attach_csv_to_parents
                 THEN link_file_ann(Store, script_params.Data_Type, source_object,
                                    script_params.File_Annotation[run.src + 1])
                 ELSE Store
       IN annLinks' = st.links
    /\ run' = [run EXCEPT !.src = @ + 1]
    /\ pc' = "source"
    /\ UNCHANGED <<script_params, tagVars, mapAnns, nextAnnId, callVars, csvVars, walkVars>>

\* After the last source: the message of the run
Finish ==
    /\ pc = "source"
    /\ ~(run.src < Len(run.source_objects) /\ run.src < Len(script_params.File_Annotation))
    /\ LET missing_names == IF script_params.File_Annotation_multiplied
                               /\ Cardinality(run.missing_names) > 0
                            THEN run.missing_names \ run.processed_names
                            ELSE run.missing_names
           total_missing_names == IF script_params.File_Annotation_multiplied
                                     /\ Cardinality(run.missing_names) > 0
                                  THEN Cardinality(missing_names)
                                  ELSE run.total_missing_names
       IN run' = [run EXCEPT
                    !.missing_names = missing_names,
                    !.total_missing_names = total_missing_names,
                    !.message = [updated |-> run.ntarget_updated,
                                 processed |-> run.ntarget_processed,
                                 missing |-> total_missing_names,
                                 by |-> IF total_missing_names > 0
                                        THEN (IF run.use_id THEN "ID" ELSE "name")
                                        ELSE ""]]
    /\ pc' = "done"
    /\ UNCHANGED <<script_params, tagVars, storeVars, callVars, csvVars, walkVars>>

Next == ParametersParsing \/ MainLoop \/ BeginSource \/ ProcessRow \/ EndSource \/ Finish
Spec == Init /\ [][Next]_vars

----------------------------------------------------------------------------
(* Properties of the run                                                   *)

DuplicateNameError ==
    pc = "failed" /\ run.where \in {"csv_duplicates", "target_duplicates"}

\* The names of the targets of the source object being processed
TargetsOfSource ==
    target_iterator(hier, run.source_objects[run.src + 1],
                    script_params.Target_Data_Type, FALSE).objs
NameColumn == IndexOf(csv.header, script_params.Target_name_colname)

\* C4 as stated: when the run fails with the duplicate-name error, the store
\* holds nothing that this run created, whatever the number of sources.
C4_NoWriteByRun == DuplicateNameError => Mark = run.mark0

\* C4 amended: when the run fails with the duplicate-name error, nothing has
\* been created in the store since the processing of the failing source
\* object began, and nothing at all if it is the first one; and the rows of
\* a source are never reached in name mode with two rows of the same name or
\* two targets of the same name.
C4_NoWriteForSource ==
    /\ DuplicateNameError =>
          /\ Mark = run.mark
          /\ run.src = 0 => Mark = run.mark0
          /\ ~run.use_id
    /\ (pc = "rows" /\ ~run.use_id) =>
          /\ \A i, j \in DOMAIN csv.rows :
                i # j => csv.rows[i][NameColumn] # csv.rows[j][NameColumn]
          /\ \A i, j \in DOMAIN TargetsOfSource :
                i # j => get_obj_name(hier, TargetsOfSource[i])
                             # get_obj_name(hier, TargetsOfSource[j])

\* The second source fails on its duplicate names after the first was annotated
C4_Witness ==
    /\ DuplicateNameError
    /\ run.where = "target_duplicates"
    /\ run.src = 1
    /\ Mark # run.mark0

\* The file has been read without error, and what its header holds
FileRead == csv.err = "none"
HasColumn(name) == \E i \in DOMAIN csv.header : csv.header[i] = name
ColumnOf(name) == CHOOSE i \in DOMAIN csv.header :
                      csv.header[i] = name /\ \A j \in 1..(i - 1) : csv.header[j] # name
HasIdColumn == HasColumn(script_params.Target_ID_colname)
HasNameColumn == HasColumn(script_params.Target_name_colname)
\* The objects the run has linked an annotation to
Annotated == {annLinks[k][1] : k \in DOMAIN annLinks}
\* The rows of the file that hold the cell key in column col
RowsWith(col, key) == {i \in DOMAIN csv.rows : csv.rows[i][col] = key}

\* C9: with the target-ID column in the header the rows are matched by the
\* decimal string of the id, also when the name column is there; with only
\* the name column they are matched by name; with neither the run fails, at
\* its first source, before any target is enumerated or annotated.
C9_MatchColumn ==
    /\ (FileRead /\ HasIdColumn /\ pc = "rows") =>
          /\ run.use_id
          /\ run.idx_id = ColumnOf(script_params.Target_ID_colname)
          /\ DOMAIN run.target_d =
                {<<str(getId(TargetsOfSource[i]))>> : i \in DOMAIN TargetsOfSource}
          /\ \A k \in DOMAIN run.target_d : <<str(getId(run.target_d[k]))>> = k
          /\ \A k \in DOMAIN annLinks :
                k > run.mark.links =>
                    RowsWith(run.idx_id, <<str(getId(annLinks[k][1]))>>) # {}
    /\ (FileRead /\ ~HasIdColumn /\ HasNameColumn /\ pc = "rows") =>
          /\ ~run.use_id
          /\ run.idx_id = ColumnOf(script_params.Target_name_colname)
          /\ DOMAIN run.target_d =
                {<<get_obj_name(hier, TargetsOfSource[i])>> : i \in DOMAIN TargetsOfSource}
          /\ \A k \in DOMAIN run.target_d : <<get_obj_name(hier, run.target_d[k])>> = k
          /\ \A k \in DOMAIN annLinks :
                k > run.mark.links =>
                    RowsWith(run.idx_id, <<get_obj_name(hier, annLinks[k][1])>>) # {}
    /\ (FileRead /\ ~HasIdColumn /\ ~HasNameColumn) =>
          /\ pc = "failed" /\ run.err = "AssertionError" /\ run.where = "columns"
          /\ run.src = 0 /\ run.ntarget_processed = 0 /\ run.target_d = EmptyFn
          /\ Mark = run.mark0

\* Both columns are in the header; the row with the id of image 1 and the
\* name of image 2 has annotated image 1 and nothing else
C9_Witness ==
    /\ pc = "done" /\ FileRead /\ HasIdColumn /\ HasNameColumn
    /\ get_obj_name(hier, <<"Image", 2>>) = "B"
    /\ \E i \in DOMAIN csv.rows :
          /\ csv.rows[i][ColumnOf(script_params.Target_ID_colname)] = <<"1">>
          /\ csv.rows[i][ColumnOf(script_params.Target_name_colname)] = <<"B">>
    /\ Annotated = {<<"Image", 1>>}

\* The targets of the source of the run, in a run with one source
TargetsOfRun == {run.target_d[k] : k \in DOMAIN run.target_d}
\* The (header, cell) pairs of row i in the columns cols, in column order
PairsOf(i, cols) == [k \in DOMAIN cols |-> <<csv.header[cols[k]], csv.rows[i][cols[k]]>>]
KeptColumns ==
    Ascending({c \in DOMAIN csv.header :
                  /\ csv.header[c] \notin {script_params.Target_ID_colname,
                                           script_params.Target_name_colname}
                  /\ lower(csv.header[c]) # "tag"})

\* A finished run in ID mode with one source, one namespace, whole cells,
\* empty values kept and at least one column of values
C8_Scenario ==
    /\ pc = "done" /\ FileRead /\ HasIdColumn
    /\ Len(run.source_objects) = 1
    /\ csv.namespaces = <<>>
    /\ script_params.Split_value_on = ""
    /\ ~script_params.Exclude_empty_values
    /\ ~script_params.Attach_csv_to_parents
    /\ KeptColumns # <<>>

\* C8: in ID mode every row with the id of an enumerated target has created
\* one key-value annotation, linked to that target only, that holds the
\* pairs of the row; the message gives the number of targets updated over
\* the number enumerated, and the number of unmatched rows, rows with the
\* same unmatched id being counted once.
C8_EndToEnd ==
    C8_Scenario =>
        LET idc == ColumnOf(script_params.Target_ID_colname)
            matching(t) == RowsWith(idc, <<str(getId(t))>>)
            unmatched == {csv.rows[i][idc] : i \in {j \in DOMAIN csv.rows :
                             /\ csv.rows[j][idc] # EmptyCell
                             /\ \A t \in TargetsOfRun : j \notin matching(t)}}
        IN /\ \A t \in TargetsOfRun :
                 /\ Cardinality({k \in DOMAIN annLinks : annLinks[k][1] = t})
                        = Cardinality(matching(t))
                 /\ \A i \in matching(t) :
                       \E k \in DOMAIN annLinks :
                           /\ annLinks[k][1] = t
                           /\ annLinks[k][2] \in DOMAIN mapAnns
                           /\ mapAnns[annLinks[k][2]].kv = PairsOf(i, KeptColumns)
           /\ Annotated \subseteq TargetsOfRun
           /\ Cardinality(DOMAIN mapAnns) = Len(annLinks)
           /\ run.message.updated = Cardinality({t \in TargetsOfRun : matching(t) # {}})
           /\ run.message.processed = Cardinality(TargetsOfRun)
           /\ run.message.missing = Cardinality(unmatched)

\* C10: a row with an empty cell in the match column is skipped without an
\* error, an annotation or a count, in ID mode and in name mode: the run
\* never fails because the empty name is in two rows, the empty cell is never
\* among the missing names, and passing such a row writes nothing.
C10_EmptyKeySkipped ==
    /\ (pc = "failed" /\ run.where = "csv_duplicates") =>
          CsvDuplicates(csv.rows, NameColumn) # {EmptyCell}
    /\ EmptyCell \notin run.missing_names
    /\ (pc = "rows" /\ run.skipped > 0 /\ run.matched = 0) => Mark = run.mark

\* The row the loop over the rows is at, and the cell of its match column
AtRow == pc = "rows" /\ run.row <= Len(run.rows)
KeyOfRow == run.rows[run.row][run.idx_id]
\* The keys under which the targets of all the sources of the run are known
KeysOfRun ==
    UNION {{IF run.use_id THEN <<str(getId(t.objs[i]))>> ELSE <<get_obj_name(hier, t.objs[i])>> :
               i \in DOMAIN t.objs} :
           t \in {target_iterator(hier, run.source_objects[s], script_params.Target_Data_Type,
                                  FALSE) : s \in DOMAIN run.source_objects}}
\* The non-empty cells of the match column of the file that are keys of no target
KeysNotFound ==
    {csv.rows[i][run.idx_id] : i \in DOMAIN csv.rows} \ (KeysOfRun \cup {EmptyCell})

\* The step of a row whose key is not empty and not in target_d: the key is
\* recorded, the store stays as it is, and the loop is at the next row
UnmatchedRowStep ==
    (AtRow /\ KeyOfRow # EmptyCell /\ KeyOfRow \notin DOMAIN run.target_d) =>
        /\ pc' = "rows" /\ run'.err = "none"
        /\ run'.row = run.row + 1
        /\ KeyOfRow \in run'.missing_names
        /\ UNCHANGED <<storeVars, tags, tagLinks>>
        /\ run'.ntarget_updated = run.ntarget_updated

\* C11: a row with a non-empty key that is not in the target dictionary does
\* not abort the run: its key is recorded as missing, nothing is written for
\* it, the next row is processed, and the message of the run counts the keys
\* of the file that no source of the run had a target for.
C11_MissingRecovered ==
    /\ [][UnmatchedRowStep]_vars
    /\ []((pc = "done" /\ FileRead) =>
              /\ run.message.missing = Cardinality(KeysNotFound)
              /\ run.missing_names = KeysNotFound)

\* The first row has no target, the second one annotated image 1, and the
\* message counts one target not found
C11_Witness ==
    /\ pc = "done" /\ FileRead /\ run.use_id
    /\ Len(csv.rows) = 2
    /\ csv.rows[1][run.idx_id] = <<"9">> /\ csv.rows[2][run.idx_id] = <<"1">>
    /\ run.message.missing = 1 /\ run.message.updated = 1
    /\ Annotated = {<<"Image", 1>>}

\* The tag columns of the file, and the rows with the reference ref in one
TagColumns == {c \in DOMAIN csv.header : lower(csv.header[c]) = "tag"}
RowsReferring(ref) ==
    {i \in DOMAIN csv.rows : \E c \in TagColumns : csv.rows[i][c] = <<ref>>}
\* The file refers to tags only as X[1], and tag 1, called X, is in the registry
ExplicitIdOnly ==
    /\ FileRead
    /\ RowsReferring("X[1]") # {}
    /\ \A i \in DOMAIN csv.rows : \A c \in TagColumns : csv.rows[i][c] \in {EmptyCell, <<"X[1]">>}
    /\ 1 \in DOMAIN tags /\ tags[1].value = "X" /\ ~tags[1].isSet
    /\ ~(use_personal_tags /\ ~tags[1].own)

\* C12: a reference Name[id] with the id of a tag of the registry that has
\* that name resolves to that id, creating nothing and raising nothing: the
\* run gets past preprocess_tag_rows with the cell replaced by the id.
C12_ExplicitId ==
    ExplicitIdOnly =>
        /\ pc \in {"rows", "source", "done"}
        /\ run.where # "preprocess_tag_rows"
        /\ \A i \in RowsReferring("X[1]") : \A c \in TagColumns :
              csv.rows[i][c] = <<"X[1]">> => run.rows[i][c] = <<"1">>
        /\ Mark.tags = run.mark0.tags /\ Mark.tagLinks = run.mark0.tagLinks

\* The references of the file: row, tag column and place in the cell, for the
\* cells that preprocess_tag_rows replaced piece by piece
TagRefs ==
    {r \in (DOMAIN csv.rows) \X TagColumns \X (1..2) :
        /\ csv.rows[r[1]][r[2]] # EmptyCell
        /\ r[3] <= Len(csv.rows[r[1]][r[2]])
        /\ Len(run.rows[r[1]][r[2]]) = Len(csv.rows[r[1]][r[2]])}
RefText(r) == csv.rows[r[1]][r[2]][r[3]]
RefId(r) == int(run.rows[r[1]][r[2]][r[3]])
\* The tags the run created, and the tagsets a tag is a member of
TagsOfStart == DOMAIN RunTags(TRUE)
NewTags == (DOMAIN tags) \ TagsOfStart
SetsOf(t) == {l[1] : l \in {k \in tagLinks : k[2] = t}}
\* The rows of the current source are ready for the loop over them
RowsPrepared == FileRead /\ pc = "rows" /\ Len(run.rows) = Len(csv.rows)

\* C14: with tag creation enabled each missing bare name, each missing
\* (tagset, name) pair and each missing tagset is created at most once: the
\* new id is in the lookup tables, and the later references that read the
\* same resolve to the same id.
C14_CreatedOnce ==
    (script_params.Create_new_Tags /\ RowsPrepared) =>
        /\ \A r1, r2 \in TagRefs : RefText(r1) = RefText(r2) => RefId(r1) = RefId(r2)
        /\ \A a, b \in NewTags :
              (/\ tags[a].value = tags[b].value /\ tags[a].isSet = tags[b].isSet
               /\ {tags[x].value : x \in SetsOf(a)} = {tags[x].value : x \in SetsOf(b)})
                  => a = b
        /\ NewTags \subseteq tagid_d
        /\ \A r \in TagRefs : RefId(r) \in tagid_d

----------------------------------------------------------------------------
(* KeyVals_to_Tag.py: parameters_parsing, main_loop, preprocess_tag_rows   *)

ALLOWED_PARAM_to_Tag ==
    [Project |-> {"Project", "Dataset", "Image"},
     Dataset |-> {"Dataset", "Image"},
     Image |-> {"Image"},
     Screen |-> {"Screen", "Plate", "Well", "Acquisition", "Image"},
     Plate |-> {"Plate", "Well", "Acquisition", "Image"},
     Well |-> {"Well", "Image"},
     Acquisition |-> {"Acquisition", "Image"},
     Tag |-> {"Project", "Dataset", "Image", "Screen", "Plate", "Well", "Acquisition"}]

\* parameters_parsing(client) of KeyVals_to_Tag.py on the inputs p of the
\* client; the list of namespaces, made of distinct entries, is a set
parameters_parsing_to_Tag(p) ==
    LET target == IF p.Target_Data_Type = "<on current>" THEN p.Data_Type
                  ELSE TargetOfMenu(p.Target_Data_Type)
    IN IF target \notin ALLOWED_PARAM_to_Tag[p.Data_Type] THEN ParseError("AssertionError")
       ELSE [err |-> "none",
             Data_Type |-> IF p.Data_Type = "Tag" THEN "TagAnnotation" ELSE p.Data_Type,
             Target_Data_Type |-> IF target = "Acquisition" THEN "PlateAcquisition" ELSE target,
             IDs |-> p.IDs,
             Namespace |-> IF "*" \in Range(p.Namespace) THEN {"*"} ELSE Range(p.Namespace),
             Allow_tag_creation |-> p.Allow_tag_creation,
             Key_name_include |-> p.Key_name_include,
             Key_name_exclude |-> p.Key_name_exclude]

\* pattern.search(k) for the patterns of the model: ".*", or a key itself
search(pattern, k) == pattern = ".*" \/ pattern = k

\* get_existing_map_annotations(obj, namespace_l): the (k.strip(), v.strip())
\* of the key-value annotations of obj in these namespaces
get_existing_map_annotations(st, obj, namespace_l) ==
    {<<strip(kv[1]), strip(kv[2])>> :
        kv \in UNION {Range(st.maps[a].kv) :
                        a \in {x \in ExistIds(st, obj) \cap DOMAIN st.maps :
                                  "*" \in namespace_l \/ st.maps[x].ns \in namespace_l}}}

\* kv_l: the pairs with a key that one of regex_l finds, less those with a key
\* that one of regex_exclude_l finds
FilteredKeyvals(kv_l_tmp, regex_l, regex_exclude_l) ==
    {kv \in kv_l_tmp : \E i \in DOMAIN regex_l : search(regex_l[i], kv[1])}
        \ {kv \in kv_l_tmp : \E i \in DOMAIN regex_exclude_l : search(regex_exclude_l[i], kv[1])}

RECURSIVE TargetsOfSources(_, _, _, _, _)
\* The loop over the sources: the targets of each, less those seen already
TargetsOfSources(h, sources, target_type, is_tag, objs) ==
    IF sources = <<>> THEN WalkOk(objs)
    ELSE LET t == target_iterator(h, Head(sources), target_type, is_tag) IN
         IF t.err # "none" THEN WalkError(t.err)
         ELSE TargetsOfSources(h, Tail(sources), target_type, is_tag,
                               OrderedKeys(objs \o t.objs))

\* target_keyval_d for the targets objs: each set of pairs in an order in
\* which "for tagset, tagname in target_keyval" can go through it
KeyvalOrders(st, objs, p) ==
    LET kv_l(o) == FilteredKeyvals(get_existing_map_annotations(st, o, p.Namespace),
                                   p.Key_name_include, p.Key_name_exclude)
    IN {f \in [Range(objs) -> UNION {Orders(kv_l(o)) : o \in Range(objs)}] :
           \A o \in Range(objs) : f[o] \in Orders(kv_l(o))}

\* A resolution that creates the tag that is not there, allowed or not
ResolvePlainCreating_to_Tag(tagname, reg, create_new_tags) ==
    IF tagname \in DOMAIN reg.tag_d THEN Resolved(reg, <<reg.tag_d[tagname]>>)
    ELSE Resolved(NewTag(reg, tagname), <<reg.next>>)

\* "if not has_tagset" in KeyVals_to_Tag.py: a tag that is not there is
\* created if that is allowed and skipped if not
ResolvePlain_to_Tag(tagname, reg, create_new_tags) ==
    IF tagname \in DOMAIN reg.tag_d THEN Resolved(reg, <<reg.tag_d[tagname]>>)
    ELSE IF ~create_new_tags THEN Resolved(reg, <<>>)
    ELSE Resolved(NewTag(reg, tagname), <<reg.next>>)

\* link.parent = tagset_o; link.child = tag_o; update.saveObject(link);
\* tagtree_d[tagset][tagname] = tag_o.id
LinkNewTag_to_Tag(reg, tagname, tagset, id) ==
    Resolved([reg EXCEPT !.tagLinks = @ \cup {<<reg.tagset_d[tagset], id>>},
                         !.tagtree_d = Put(@, <<tagset, tagname>>, id)],
             <<id>>)

\* "else:  # has tagset" in KeyVals_to_Tag.py
ResolveInSet_to_Tag(tagname, tagset, reg, create_new_tags) ==
    IF tagset \in DOMAIN reg.tagset_d /\ <<tagset, tagname>> \in DOMAIN reg.tagtree_d
    THEN Resolved(reg, <<reg.tagtree_d[<<tagset, tagname>>]>>)
    ELSE IF ~create_new_tags THEN Resolved(reg, <<>>)
    ELSE LinkNewTag_to_Tag(IF tagset \in DOMAIN reg.tagset_d THEN NewTag(reg, tagname)
                           ELSE NewTagset(NewTag(reg, tagname), tagset),
                           tagname, tagset, reg.next)

\* The body of "for tagset, tagname in target_keyval"
ResolvePair(kv, reg, create_new_tags) ==
    IF kv[2] = "" THEN Resolved(reg, <<>>)
    ELSE IF kv[1] = "" THEN ResolvePlain_to_Tag(kv[2], reg, create_new_tags)
    ELSE ResolveInSet_to_Tag(kv[2], kv[1], reg, create_new_tags)

RECURSIVE ResolvePairs(_, _, _, _)
ResolvePairs(target_keyval, reg, create_new_tags, tagid_l) ==
    IF target_keyval = <<>> THEN Resolved(reg, tagid_l)
    ELSE LET r == ResolvePair(Head(target_keyval), reg, create_new_tags) IN
         ResolvePairs(Tail(target_keyval), r.reg, create_new_tags, tagid_l \o r.ids)

RECURSIVE preprocess_tag_rows_to_Tag(_, _, _, _, _)
\* preprocess_tag_rows(conn, target_keyval_d, tag_d, tagset_d, tagtree_d,
\*                     tagid_d, create_new_tags), objs being the keys of
\* target_keyval_d in insertion order
preprocess_tag_rows_to_Tag(objs, target_keyval_d, reg, create_new_tags, obj_totag_d) ==
    IF objs = <<>> THEN [reg |-> reg, obj_totag_d |-> obj_totag_d]
    ELSE LET r == ResolvePairs(target_keyval_d[Head(objs)], reg, create_new_tags, <<>>) IN
         preprocess_tag_rows_to_Tag(Tail(objs), target_keyval_d, r.reg, create_new_tags,
                                    Put(obj_totag_d, Head(objs), r.ids))

----------------------------------------------------------------------------
(* One run of KeyVals_to_Tag.py                                            *)

MaxPairs == 2

\* The pairs of the key-value annotations of the store: the tag X of the
\* tagset S, a tag N that S does not have, N in a tagset T that is not there,
\* and N under a blank key
KvPairs == {<<"S", "X">>, <<"S", "N">>, <<"T", "N">>, <<" ", "N">>}
KvLists == UNION {[1..n -> KvPairs] : n \in 0..MaxPairs}

\* The inputs of the client with the defaults of parameters_parsing
TagInputs(data_type, ids, target) ==
    [Data_Type |-> data_type, IDs |-> ids, Target_Data_Type |-> target,
     Namespace |-> <<NSCLIENTMAPANNOTATION>>,
     Allow_tag_creation |-> FALSE,
     Key_name_include |-> <<".*">>, Key_name_exclude |-> <<>>]

\* The local variables of main_loop
TagRunStart ==
    [err |-> "none", where |-> "",
     target_obj_d |-> <<>>, target_keyval_d |-> EmptyFn, obj_totag_d |-> EmptyFn,
     result_obj |-> NoObject, message |-> NoMessage, mark0 |-> Mark]

\* The run starts with these inputs and containers, the tags X and S, a
\* key-value annotation on image 1 and one on image 2, and perhaps the tag X
\* on image 1
TagRunInput(p, kv1, kv2, ns2, h, own1, personal, linked) ==
    /\ script_params = p
    /\ tags = RunTags(own1)
    /\ hier = h
    /\ use_personal_tags = personal
    /\ mapAnns = (3 :> [ns |-> NSCLIENTMAPANNOTATION, kv |-> kv1])
                 @@ (4 :> [ns |-> ns2, kv |-> kv2])
    /\ annLinks = << <<(<<"Image", 1>>), 3>>, <<(<<"Image", 2>>), 4>> >>
                  \o (IF linked THEN << <<(<<"Image", 1>>), 1>> >> ELSE <<>>)

\* Every list of pairs on image 1, with tag creation allowed or not
TagRunsPairs ==
    (\E kv1 \in KvLists, kv2 \in {q \in KvLists : Len(q) <= 1}, cr \in BOOLEAN :
        TagRunInput([TagInputs("Dataset", <<1>>, "-- Image") EXCEPT
                        !.Allow_tag_creation = cr],
                    kv1, kv2, NSCLIENTMAPANNOTATION,
                    DatasetStore("B", "C", <<3>>), TRUE, FALSE, FALSE))

\* Namespaces and patterns that leave pairs out
TagRunsFiltered ==
    (\E ns \in {<<"*">>, <<"*", NSCLIENTMAPANNOTATION>>, <<"other">>,
                <<NSCLIENTMAPANNOTATION, NSCLIENTMAPANNOTATION>>},
        incl \in {<<".*">>, <<"S">>}, excl \in {<<>>, <<"T">>, <<"S", "T">>},
        cr \in BOOLEAN :
        TagRunInput([TagInputs("Dataset", <<1>>, "-- Image") EXCEPT
                        !.Namespace = ns, !.Key_name_include = incl,
                        !.Key_name_exclude = excl, !.Allow_tag_creation = cr],
                    << <<"S", "X">>, <<"T", "N">> >>, << <<"T", "N">> >>, "other",
                    DatasetStore("B", "C", <<3>>), TRUE, FALSE, FALSE))

\* Sources that share a target, a source that is its own target, a tag that
\* is on its target already, tags of the user only
TagRunsSources ==
    (\E p \in {TagInputs("Dataset", <<1, 2>>, "-- Image"),
               TagInputs("Dataset", <<2, 1>>, "<on current>"),
               TagInputs("Image", <<1, 2>>, "<on current>"),
               TagInputs("Image", <<2>>, "-- Image")},
        own1 \in BOOLEAN, personal \in BOOLEAN, linked \in BOOLEAN, cr \in BOOLEAN :
        TagRunInput([p EXCEPT !.Allow_tag_creation = cr],
                    << <<"S", "X">>, <<" ", "N">> >>, << <<"S", "N">> >>,
                    NSCLIENTMAPANNOTATION,
                    DatasetStore("B", "C", <<3, 1>>), own1, personal, linked))

\* Inputs that parameters_parsing refuses
TagRunsRefused ==
    (\E p \in {TagInputs("Dataset", <<1>>, "Project"),
               TagInputs("Image", <<1>>, "- Dataset"),
               TagInputs("Image", <<1>>, "-- Run"),
               TagInputs("Project", <<1>>, "-- Well")} :
        TagRunInput(p, << <<"S", "X">> >>, <<>>, NSCLIENTMAPANNOTATION,
                    DatasetStore("B", "C", <<3>>), TRUE, FALSE, FALSE))

InitTag ==
    /\ pc = "tag_parameters_parsing"
    /\ TagRunsPairs \/ TagRunsFiltered \/ TagRunsSources \/ TagRunsRefused
    /\ tagLinks = RunTagLinks
    /\ tag_d = EmptyFn /\ tagset_d = EmptyFn /\ tagtree_d = EmptyFn /\ tagid_d = {}
    /\ nextAnnId = 5
    /\ run = TagRunStart
    /\ walk = None /\ CallIdle /\ CsvIdle

\* params = parameters_parsing(client)
TagParametersParsing ==
    /\ pc = "tag_parameters_parsing"
    /\ LET r == parameters_parsing_to_Tag(script_params) IN
       IF r.err # "none"
       THEN /\ pc' = "tag_failed"
            /\ run' = Fail(r.err, "parameters_parsing")
            /\ UNCHANGED script_params
       ELSE /\ pc' = "tag_main_loop"
            /\ script_params' = r
            /\ UNCHANGED run
    /\ UNCHANGED <<tagVars, storeVars, callVars, csvVars, walkVars>>

\* main_loop up to get_tag_dict: the targets of the sources and their pairs
TagMainLoop ==
    /\ pc = "tag_main_loop"
    /\ LET t == TargetsOfSources(hier, getObjects(hier, script_params.Data_Type,
                                                  script_params.IDs),
                                 script_params.Target_Data_Type,
                                 script_params.Data_Type = "TagAnnotation", <<>>)
       IN IF t.err # "none"
          THEN /\ pc' = "tag_failed"
               /\ run' = Fail(t.err, "target_iterator")
          ELSE /\ pc' = "tag_get_tag_dict"
               /\ \E kv \in KeyvalOrders(Store, t.objs, script_params) :
                     run' = [run EXCEPT !.target_obj_d = t.objs,
                                        !.target_keyval_d = kv,
                                        !.result_obj = IF t.objs = <<>> THEN NoObject
                                                       ELSE t.objs[1]]
    /\ UNCHANGED <<script_params, tagVars, storeVars, callVars, csvVars, walkVars>>

\* tag_d, tagset_d, tagtree_d, tagid_d = get_tag_dict(conn, use_personal_tags)
TagGetTagDict ==
    /\ pc = "tag_get_tag_dict"
    /\ \E dicts \in get_tag_dict(tags, tagLinks, use_personal_tags) :
          /\ tag_d' = dicts.tag_d
          /\ tagset_d' = dicts.tagset_d
          /\ tagtree_d' = dicts.tagtree_d
          /\ tagid_d' = dicts.tagid_d
    /\ pc' = "tag_preprocess"
    /\ UNCHANGED <<tags, tagLinks, use_personal_tags, script_params, run, storeVars,
                   callVars, csvVars, walkVars>>

\* obj_totag_d, ... = preprocess_tag_rows(conn, target_keyval_d, ...)
TagPreprocess ==
    /\ pc = "tag_preprocess"
    /\ LET r == preprocess_tag_rows_to_Tag(run.target_obj_d, run.target_keyval_d,
                                           Registry, script_params.Allow_tag_creation,
                                           EmptyFn)
       IN /\ run' = [run EXCEPT !.obj_totag_d = r.obj_totag_d]
          /\ tag_d' = r.reg.tag_d
          /\ tagset_d' = r.reg.tagset_d
          /\ tagtree_d' = r.reg.tagtree_d
          /\ tagid_d' = r.reg.tagid_d
          /\ tags' = r.reg.tags
          /\ tagLinks' = r.reg.tagLinks
          /\ nextAnnId' = r.reg.next
    /\ pc' = "tag_annotate"
    /\ UNCHANGED <<use_personal_tags, script_params, annLinks, mapAnns, callVars, csvVars,
                   walkVars>>

\* updated_count = annotate_objects(...), and the message
TagAnnotate ==
    /\ pc = "tag_annotate"
    /\ LET r == annotate_objects(run.target_obj_d, run.obj_totag_d, tagid_d, Store, 0) IN
          /\ annLinks' = r.st.links
          /\ IF r.err # "none"
             THEN /\ pc' = "tag_failed"
                  /\ run' = Fail(r.err, "annotate_objects")
             ELSE /\ pc' = "tag_done"
                  /\ run' = [run EXCEPT !.message =
                               [updated |-> r.updated_count,
                                processed |-> Len(run.target_obj_d),
                                missing |-> 0, by |-> ""]]
    /\ UNCHANGED <<script_params, tagVars, mapAnns, nextAnnId, callVars, csvVars, walkVars>>

NextTag == TagParametersParsing \/ TagMainLoop \/ TagGetTagDict \/ TagPreprocess
           \/ TagAnnotate
SpecTag == InitTag /\ [][NextTag]_vars

----------------------------------------------------------------------------
(* The two scripts that resolve references to tags                         *)

InitScripts == Init \/ InitTag
NextScripts == ParametersParsing \/ MainLoop \/ BeginSource \/ ProcessRow \/ EndSource
               \/ Finish \/ TagParametersParsing \/ TagMainLoop \/ TagGetTagDict
               \/ TagPreprocess \/ TagAnnotate
SpecScripts == InitScripts /\ [][NextScripts]_vars

CsvRun == pc \in {"parameters_parsing", "main_loop", "source", "rows", "failed", "done"}
TagRun == ~CsvRun

\* The store has the tags and the links it started with
NothingCreated ==
    /\ \A t \in DOMAIN tags : t \in TagsOfStart
    /\ tagLinks = RunTagLinks
\* The four tables are as get_tag_dict gives them, or as before it was called
TablesAsRead ==
    \E d \in get_tag_dict(tags, tagLinks, use_personal_tags) :
        tag_d = d.tag_d /\ tagset_d = d.tagset_d /\ tagtree_d = d.tagtree_d
        /\ tagid_d = d.tagid_d
TablesEmpty == tag_d = EmptyFn /\ tagset_d = EmptyFn /\ tagtree_d = EmptyFn /\ tagid_d = {}

\* The references of the tag columns of the file, those that give an id, and
\* those to a tag, bare or in a tagset, that the tables do not have
AllRefs ==
    {csv.rows[i][c][k] : <<i, c, k>> \in
        {r \in (DOMAIN csv.rows) \X TagColumns \X (1..2) : r[3] <= Len(csv.rows[r[1]][r[2]])}}
GivesId(val) == regx_tag(val).tagid # None
MissingRef(val) ==
    LET g == regx_tag(val) IN
    /\ g.tagid = None
    /\ g.tagname \notin {None, ""}
    /\ IF g.tagset \in {None, ""} THEN g.tagname \notin DOMAIN tag_d
       ELSE g.tagset \notin DOMAIN tagset_d \/ <<g.tagset, g.tagname>> \notin DOMAIN tagtree_d

\* The pairs of a target that name a tag of the tables, and the id of one
PairResolvable(kv) ==
    /\ kv[2] # ""
    /\ IF kv[1] = "" THEN kv[2] \in DOMAIN tag_d
       ELSE kv[1] \in DOMAIN tagset_d /\ kv \in DOMAIN tagtree_d
PairId(kv) == IF kv[1] = "" THEN tag_d[kv[2]] ELSE tagtree_d[kv]
IdsOfResolvable(target_keyval) ==
    LET kept == SelectSeq(target_keyval, PairResolvable) IN
    [i \in DOMAIN kept |-> PairId(kept[i])]

C13_CsvStopped ==
    /\ pc = "failed" /\ run.where = "preprocess_tag_rows" /\ run.err = "AssertionError"
    /\ "N" \in AllRefs /\ MissingRef("N")

----------------------------------------------------------------------------
(* KeyVal_to_csv.py                                                        *)

ZERO_PADDING == 3

\* The key-value annotations of obj in the namespace, in the order of
\* obj.listAnnotations(ns=namespace)
MapAnnotationsOf(st, obj, namespace) ==
    LET l == SelectSeq(st.links, LAMBDA k : k[1] = obj /\ k[2] \in DOMAIN st.maps
                                            /\ st.maps[k[2]].ns = namespace)
    IN [i \in DOMAIN l |-> l[i][2]]

\* get_existing_map_annotions(obj, namespace, zero_padding): the pairs in
\* order, the key of each with the count of the same key before it in front
get_existing_map_annotions(st, obj, namespace) ==
    LET anns == MapAnnotationsOf(st, obj, namespace)
        kvs == Flatten([i \in DOMAIN anns |-> st.maps[anns[i]].kv])
    IN [i \in DOMAIN kvs |->
          <<(<<Cardinality({j \in 1..(i - 1) : kvs[j][1] = kvs[i][1]}), kvs[i][1]>>),
            kvs[i][2]>>]

\* annotation_dict[k], "" where the dictionary has no key k
ValueOfKey(annotation_dict, k) ==
    IF \E i \in DOMAIN annotation_dict : annotation_dict[i][1] = k
    THEN annotation_dict[CHOOSE i \in DOMAIN annotation_dict : annotation_dict[i][1] = k][2]
    ELSE ""

\* group_keyvalue_dictionaries(annotation_dicts, zero_padding)
group_keyvalue_dictionaries(annotation_dicts) ==
    LET all_key == OrderedKeys(Flatten([d \in DOMAIN annotation_dicts |->
                      [i \in DOMAIN annotation_dicts[d] |-> annotation_dicts[d][i][1]]]))
    IN [all_key |-> [i \in DOMAIN all_key |-> all_key[i][2]],
        result |-> [d \in DOMAIN annotation_dicts |->
                      [i \in DOMAIN all_key |-> ValueOfKey(annotation_dicts[d], all_key[i])]]]

\* The name of an object: getWellPos() of a well, getName() of another
NameOf(h, obj) == h.names[obj]

\* The file attach_csv_file writes: the row of keys and a row for each object
CsvLines(h, objs, obj_ancestry_l, annotation_dicts) ==
    LET g == group_keyvalue_dictionaries(annotation_dicts)
        parents(k) == IF Len(obj_ancestry_l) > 0 THEN obj_ancestry_l[k] ELSE <<>>
    IN [header |-> [i \in DOMAIN parents(1) |-> parents(1)[i][1]]
                   \o <<"target_id", "target_name">> \o g.all_key,
        rows |-> [k \in DOMAIN objs |->
                    [i \in DOMAIN parents(k) |-> parents(k)[i][2]]
                    \o <<str(getId(objs[k])), NameOf(h, objs[k])>> \o g.result[k]]]

\* attach_csv_file(conn, source_object, obj_id_l, obj_name_l, obj_ancestry_l,
\*                 annotation_dicts, separator): the file annotation it makes
attach_csv_file(h, source_object, objs, obj_ancestry_l, annotation_dicts, separator) ==
    [name |-> NameOf(h, source_object), on |-> source_object, separator |-> separator,
     lines |-> CsvLines(h, objs, obj_ancestry_l, annotation_dicts)]

\* o.getParent() can give any of these
ParentsOf(h, obj) == {c \in DOMAIN h.kids : \E i \in DOMAIN h.kids[c] : h.kids[c][i] = obj}

RECURSIVE getAncestry(_, _)
\* target_obj.getAncestry(): the chains of parents it can give
getAncestry(h, obj) ==
    IF ParentsOf(h, obj) = {} THEN {<<>>}
    ELSE UNION {{<<p>> \o a : a \in getAncestry(h, p)} : p \in ParentsOf(h, obj)}

\* [(o.OMERO_CLASS, name of o) for o in ... if o.OMERO_CLASS != "WellSample"][::-1]
AncestryOf(h, chain) ==
    LET l == SelectSeq(chain, LAMBDA o : OMERO_CLASS(o) # "WellSample")
    IN [i \in DOMAIN l |-> <<OMERO_CLASS(l[Len(l) + 1 - i]), NameOf(h, l[Len(l) + 1 - i])>>]

\* obj_ancestry_l for the targets objs: empty unless include_parent
AncestryLists(h, objs, include_parent) ==
    IF ~include_parent THEN {<<>>}
    ELSE {l \in [DOMAIN objs -> UNION {{AncestryOf(h, c) : c \in getAncestry(h, objs[k])} :
                                          k \in DOMAIN objs}] :
             \A k \in DOMAIN objs : \E c \in getAncestry(h, objs[k]) : l[k] = AncestryOf(h, c)}

\* The body of the loop of main_loop up to attach_csv_file: the targets of a
\* source, the object the file goes on, and whether get_children_recursive ran
ExportTargets(h, source_object, source_type, target_type) ==
    IF source_type = target_type
    THEN [err |-> "none", objs |-> <<source_object>>, on |-> source_object,
          walked |-> FALSE, own |-> TRUE]
    ELSE IF source_type = "TagAnnotation"
    THEN LET target_obj_l == getObjectsByAnnotations(h, target_type) IN
         IF target_obj_l = <<>>
         THEN [err |-> "IndexError", objs |-> <<>>, on |-> source_object,
               walked |-> FALSE, own |-> FALSE]
         ELSE [err |-> "none", objs |-> target_obj_l, on |-> target_obj_l[1],
               walked |-> FALSE, own |-> FALSE]
    ELSE LET r == get_children_recursive(h, source_object, target_type) IN
         [err |-> r.err, objs |-> r.objs, on |-> source_object, walked |-> TRUE,
          own |-> FALSE]

\* The inputs of the client
ExportInputs(source_type, ids, target_type, include_parent) ==
    [Source_object_type |-> source_type, Source_IDs |-> ids,
     Target_object_type |-> target_type,
     Namespace |-> NSCLIENTMAPANNOTATION, Separator |-> ";",
     Include_parent |-> include_parent]

\* The local variables of main_loop
ExportRunStart ==
    [err |-> "none", where |-> "", source_objects |-> <<>>, src |-> 0, files |-> <<>>,
     mark0 |-> Mark]

\* A project with the datasets 1, of the images 1 and 2, and 2, of the images d2
ExportStore(d2) ==
    [DatasetStore("B", "C", d2) EXCEPT
        !.nodes = @ \cup {<<"Project", 1>>},
        !.kids = @ @@ (<<"Project", 1>> :> << <<"Dataset", 1>>, <<"Dataset", 2>> >>),
        !.names = @ @@ (<<"Project", 1>> :> "p1")]

ExportPairs == {<<"K", "v">>, <<"L", "w">>, <<"K", "u">>}
ExportKvLists == UNION {[1..n -> ExportPairs] : n \in 0..MaxPairs}

\* The run starts with these inputs and containers, a key-value annotation on
\* image 1 and one on image 2
ExportRunInput(p, kv1, kv2, ns2, h) ==
    /\ script_params = p
    /\ hier = h
    /\ mapAnns = (3 :> [ns |-> NSCLIENTMAPANNOTATION, kv |-> kv1])
                 @@ (4 :> [ns |-> ns2, kv |-> kv2])
    /\ annLinks = << <<(<<"Image", 1>>), 3>>, <<(<<"Image", 2>>), 4>> >>

\* Every list of pairs on image 1
ExportRunsPairs ==
    (\E kv1 \in ExportKvLists, kv2 \in {<<>>, << <<"L", "w">> >>},
        ns2 \in {NSCLIENTMAPANNOTATION, "other"}, ip \in BOOLEAN :
        ExportRunInput(ExportInputs("- Dataset", <<1>>, "-- Image", ip), kv1, kv2, ns2,
                       ExportStore(<<3>>)))

\* Every source type with every target type of the two menus that the store
\* has objects of, and a target type it has none of
ExportRunsTypes ==
    (\E st \in {"Project", "- Dataset", "-- Image", "Screen"},
        tt \in {"Project", "- Dataset", "-- Image", "--- Image", "- Plate"},
        ids \in {<<1>>, <<2, 1>>}, d2 \in {<<>>, <<3>>, <<3, 1>>}, ip \in BOOLEAN :
        ExportRunInput(ExportInputs(st, ids, tt, ip),
                       << <<"K", "v">> >>, << <<"L", "w">> >>, NSCLIENTMAPANNOTATION,
                       ExportStore(d2)))

\* The same store with dataset 2 outside the project
ExportStoreApart(d2) ==
    [ExportStore(d2) EXCEPT !.kids[<<"Project", 1>>] = << <<"Dataset", 1>> >>]

\* The images of dataset 1 or of project 1, of which image 1 may also be in
\* dataset 2, that is in no project
ExportRunsAncestry ==
    (\E st \in {"Project", "- Dataset"}, d2 \in {<<3>>, <<3, 1>>}, ip \in BOOLEAN,
        kv1 \in {<< <<"K", "v">> >>, << <<"K", "v">>, <<"K", "u">> >>} :
        ExportRunInput(ExportInputs(st, <<1>>, "-- Image", ip),
                       kv1, << <<"L", "w">> >>, NSCLIENTMAPANNOTATION,
                       ExportStoreApart(d2)))

InitExport ==
    /\ pc = "export_run_script"
    /\ ExportRunsPairs \/ ExportRunsTypes \/ ExportRunsAncestry
    /\ TagDictIdle /\ CallIdle /\ CsvIdle
    /\ nextAnnId = 5
    /\ run = ExportRunStart
    /\ walk = [fn |-> "none"]

\* run_script up to main_loop: the prefix of the menus is cut off
ExportRunScript ==
    /\ pc = "export_run_script"
    /\ script_params' = [script_params EXCEPT
                            !.Source_object_type = TargetOfMenu(@),
                            !.Target_object_type = TargetOfMenu(@)]
    /\ pc' = "export_main_loop"
    /\ UNCHANGED <<run, tagVars, storeVars, callVars, csvVars, walkVars>>

\* main_loop up to its loop: conn.getObjects(source_type, source_ids)
ExportMainLoop ==
    /\ pc = "export_main_loop"
    /\ run' = [run EXCEPT !.source_objects =
                  getObjects(hier, script_params.Source_object_type,
                             script_params.Source_IDs)]
    /\ pc' = "export_source"
    /\ UNCHANGED <<script_params, tagVars, storeVars, callVars, csvVars, walkVars>>

\* The body of the loop for the next source: its targets, then the file
ExportSource ==
    /\ pc = "export_source"
    /\ run.src < Len(run.source_objects)
    /\ LET source_object == run.source_objects[run.src + 1]
           t == ExportTargets(hier, source_object, script_params.Source_object_type,
                              script_params.Target_object_type)
           dicts == [k \in DOMAIN t.objs |->
                       get_existing_map_annotions(Store, t.objs[k], script_params.Namespace)]
       IN /\ walk' = IF t.walked
                     THEN [fn |-> "get_children_recursive", source |-> source_object,
                           target_type |-> script_params.Target_object_type,
                           is_tag |-> FALSE,
                           res |-> [err |-> t.err, objs |-> t.objs]]
                     ELSE walk
          /\ IF t.err # "none"
             THEN /\ pc' = "export_failed"
                  /\ run' = Fail(t.err, "get_children_recursive")
                  /\ UNCHANGED <<annLinks, nextAnnId>>
             ELSE /\ pc' = "export_source"
                  /\ \E l \in AncestryLists(hier, t.objs,
                                            script_params.Include_parent /\ ~t.own) :
                        run' = [run EXCEPT
                                  !.src = @ + 1,
                                  !.files = Append(@, attach_csv_file(hier, t.on, t.objs, l,
                                                       dicts, script_params.Separator))]
                  /\ annLinks' = Append(annLinks, <<t.on, nextAnnId>>)
                  /\ nextAnnId' = nextAnnId + 1
    /\ UNCHANGED <<script_params, tagVars, mapAnns, callVars, csvVars, hier>>

\* After the last source main_loop returns
ExportFinish ==
    /\ pc = "export_source"
    /\ ~(run.src < Len(run.source_objects))
    /\ pc' = "export_done"
    /\ UNCHANGED <<script_params, run, tagVars, storeVars, callVars, csvVars, walkVars>>

NextExport == ExportRunScript \/ ExportMainLoop \/ ExportSource \/ ExportFinish
SpecExport == InitExport /\ [][NextExport]_vars

\* C15: no walk starts for a source type and a target type outside the table
\* of allowed targets: when get_children_recursive has been called in a run
\* of KeyVal_to_csv.py, the target type is one the table allows for the type
\* of the source object.
C15_WalkAllowed ==
    walk.fn = "get_children_recursive" =>
        walk.target_type \in ALLOWED_PARAM[OMERO_CLASS(walk.source)]

----------------------------------------------------------------------------
(* Properties of the run of KeyVal_from_csv.py, continued                  *)

\* Every entry of the four tables is kept as it is by the step
TablesGrow ==
    /\ \A k \in DOMAIN tag_d : k \in DOMAIN tag_d' /\ tag_d'[k] = tag_d[k]
    /\ \A k \in DOMAIN tagset_d : k \in DOMAIN tagset_d' /\ tagset_d'[k] = tagset_d[k]
    /\ \A k \in DOMAIN tagtree_d : k \in DOMAIN tagtree_d' /\ tagtree_d'[k] = tagtree_d[k]
    /\ tagid_d \subseteq tagid_d'
\* No key of the four tables is lost by the step
TableKeysGrow ==
    /\ DOMAIN tag_d \subseteq DOMAIN tag_d'
    /\ DOMAIN tagset_d \subseteq DOMAIN tagset_d'
    /\ DOMAIN tagtree_d \subseteq DOMAIN tagtree_d'
    /\ tagid_d \subseteq tagid_d'
\* get_tag_dict is not called again once it has been called
BuiltOnceStep ==
    /\ run.tags_loaded => run'.tags_loaded
    /\ (~run.tags_loaded /\ ~run'.tags_loaded) => (TablesEmpty /\ UNCHANGED tagVars)

\* The tags the store had when the run started
TagsAtStart == [t \in TagsOfStart |-> tags[t]]
\* The tables have every entry that get_tag_dict gave, as it gave it
KeepsWhatWasRead ==
    \E d \in get_tag_dict(TagsAtStart, RunTagLinks, use_personal_tags) :
        /\ \A k \in DOMAIN d.tag_d : k \in DOMAIN tag_d /\ tag_d[k] = d.tag_d[k]
        /\ \A k \in DOMAIN d.tagset_d : k \in DOMAIN tagset_d /\ tagset_d[k] = d.tagset_d[k]
        /\ \A k \in DOMAIN d.tagtree_d : k \in DOMAIN tagtree_d
                                         /\ tagtree_d[k] = d.tagtree_d[k]
        /\ d.tagid_d \subseteq tagid_d
\* The tables have every key that get_tag_dict gave
KeepsKeysRead ==
    \E d \in get_tag_dict(TagsAtStart, RunTagLinks, use_personal_tags) :
        /\ DOMAIN d.tag_d \subseteq DOMAIN tag_d
        /\ DOMAIN d.tagset_d \subseteq DOMAIN tagset_d
        /\ DOMAIN d.tagtree_d \subseteq DOMAIN tagtree_d
        /\ d.tagid_d \subseteq tagid_d

\* C21: in one run of KeyVal_from_csv.py the four tables are read by
\* get_tag_dict at most once, and from then on they keep each entry they
\* were given and only get entries added: after the call every entry that
\* get_tag_dict gave is in the tables as it was given, and every later step
\* keeps the entries the tables have.
C21_BuiltOnce ==
    /\ [][BuiltOnceStep /\ (run.tags_loaded => TablesGrow)]_vars
    /\ [](run.tags_loaded => KeepsWhatWasRead)

\* The part of C21 about the call: one call of get_tag_dict, no key lost
C21_NeverRebuilt ==
    /\ [][BuiltOnceStep /\ (run.tags_loaded => TableKeysGrow)]_vars
    /\ [](run.tags_loaded => KeepsKeysRead)

\* The tag X of the store is one get_tag_dict keeps under its name
BareXKnown == ~(use_personal_tags /\ ~tags[1].own)
\* The references of the file that are the bare name
BareRefs(name) == {r \in TagRefs : RefText(r) = name}

\* C28: creating a missing tag inside a tagset leaves the id of every bare
\* name as it was: in a run that may create tags, every bare reference X
\* resolves to the tag X that the store had, and all the bare references N
\* resolve to one tag.
C28_BareNameKept ==
    (script_params.Create_new_Tags /\ RowsPrepared) =>
        /\ BareXKnown => \A r \in BareRefs("X") : RefId(r) = 1
        /\ \A r1, r2 \in BareRefs("N") : RefId(r1) = RefId(r2)

\* The errors of the file, of its columns, of the names and of the tags
FatalPlaces == {"read_csv", "columns", "csv_duplicates", "target_duplicates",
                "preprocess_tag_rows"}
\* The step keeps every link, annotation and tag the store has
WritesKept ==
    /\ \A i \in DOMAIN annLinks : i \in DOMAIN annLinks' /\ annLinks'[i] = annLinks[i]
    /\ \A a \in DOMAIN mapAnns : a \in DOMAIN mapAnns' /\ mapAnns'[a] = mapAnns[a]
    /\ \A t \in DOMAIN tags : t \in DOMAIN tags' /\ tags'[t] = tags[t]
    /\ tagLinks \subseteq tagLinks'
\* No step is taken after an error, and a step that meets one ends the run
AbortStep ==
    /\ pc # "failed"
    /\ run'.err # "none" => pc' = "failed"
    /\ WritesKept

\* C22: an error met while a source object is processed ends the run at
\* once: the run is failed in the step that meets the error, no step follows,
\* so nothing is written for a later source, and every step, that one too,
\* keeps what the store holds.
C22_AbortKeepsWrites ==
    /\ [][AbortStep]_vars
    /\ []((pc = "failed") <=> (run.err # "none"))

\* The second source failed on the names of its targets, and what the first
\* source wrote is in the store
C22_Witness ==
    /\ pc = "failed" /\ run.where \in FatalPlaces
    /\ run.src = 1 /\ Len(run.source_objects) = 2
    /\ Len(annLinks) > run.mark0.links
    /\ Len(annLinks) = run.mark.links

\* The file annotation of the run, and the objects a step links it to
FileAnn == FileAnnOf(RunTags(TRUE))
LinksOfFile(links, o) == {i \in DOMAIN links : links[i] = <<o, FileAnn>>}
FileLinkedBy == {annLinks'[i][1] : i \in {j \in DOMAIN annLinks' :
                                            /\ annLinks'[j][2] = FileAnn
                                            /\ j \notin DOMAIN annLinks}}
\* The step ends a source whose targets were updated, with the file to attach
EndsUpdatedSource ==
    /\ pc = "rows" /\ pc' = "source"
    /\ script_params.Attach_csv_to_parents
    /\ run.ntarget_updated_curr > 0
\* A step links the file to the source it ends, if that is to be done, the
\* source is no tag and has no link to the file, and to nothing else
FileLinkStep ==
    LET source_object == run.source_objects[run.src + 1] IN
    IF EndsUpdatedSource /\ script_params.Data_Type # "TagAnnotation"
       /\ LinksOfFile(annLinks, source_object) = {}
    THEN FileLinkedBy = {source_object}
    ELSE FileLinkedBy = {}

\* C23: the file annotation is linked to a source object only at the end of
\* that source, when "Attach csv to parents" is set, a target of the source
\* was updated, the source is no tag and it has no link to the file yet;
\* so no object ever has two links to the file.
C23_FileLinkedOnce ==
    /\ [][FileLinkStep]_vars
    /\ [](\A i, j \in DOMAIN annLinks :
            (annLinks[i] = annLinks[j] /\ annLinks[i][2] = FileAnn) => i = j)

\* The run ended: dataset 1 had the file and got no second link although a
\* target of it was updated, and dataset 2 got its link
C23_Witness ==
    /\ pc = "done" /\ script_params.Attach_csv_to_parents
    /\ Len(run.source_objects) = 2
    /\ LinksOfFile(annLinks, <<"Dataset", 1>>) = {1}
    /\ Cardinality(LinksOfFile(annLinks, <<"Dataset", 2>>)) = 1
    /\ \E i \in DOMAIN annLinks : annLinks[i][1] = <<"Image", 2>>

\* The inputs p of the client are right but for the files they name: the
\* target is one of the table, the source is no tag, the ids of the files
\* are numbers and the separator is not in "Split value on"
RightButForFiles(p) ==
    /\ (IF p.Target_Data_Type = "<on current>" THEN p.Data_Type
        ELSE TargetOfMenu(p.Target_Data_Type)) \in ALLOWED_PARAM[p.Data_Type]
    /\ p.Data_Type # "Tag"
    /\ \A i \in DOMAIN p.File_Annotation : int(p.File_Annotation[i]) # -1
    /\ ~(SeparatorOf(p.Separator) # None
         /\ InText(SeparatorOf(p.Separator), p.Split_value_on))

\* C24: no file, one file for every source, or as many files as sources:
\* each of the three forms gets to the loop over the sources, and only a list
\* of another length is refused. So a run whose inputs are right but for the
\* files fails in parameters_parsing only on such a list, and no run fails in
\* main_loop before the loop.
C24_FileSelection ==
    /\ (pc = "failed" /\ run.where = "parameters_parsing"
        /\ RightButForFiles(script_params)) =>
           Len(script_params.File_Annotation) \notin {0, 1, Len(script_params.IDs)}
    /\ pc = "failed" => run.where # "main_loop"

\* The keys of the targets of source s of the run, and the keys of the file
KeysOfSource(s) ==
    LET t == target_iterator(hier, run.source_objects[s],
                             script_params.Target_Data_Type, FALSE)
    IN {IF run.use_id THEN <<str(getId(t.objs[i]))>>
        ELSE <<get_obj_name(hier, t.objs[i])>> : i \in DOMAIN t.objs}
KeysOfFile == {csv.rows[i][run.idx_id] : i \in DOMAIN csv.rows} \ {EmptyCell}
UnmatchedForSome == {k \in KeysOfFile : \E s \in DOMAIN run.source_objects :
                                            k \notin KeysOfSource(s)}
MatchedForSome == {k \in KeysOfFile : \E s \in DOMAIN run.source_objects :
                                          k \in KeysOfSource(s)}

\* C25: at the end of a run of one file over its sources, the number of
\* targets not found in the message is the number of keys of the file that
\* were without a target for some source, less those that had a target for
\* another.
C25_MissingAcrossSources ==
    (pc = "done" /\ FileRead) =>
        run.message.missing = Cardinality(UnmatchedForSome \ MatchedForSome)

\* Two sources: the key 3 has no target in dataset 1 and one in dataset 2, the
\* key 9 has none at all, and the message counts one target not found
C25_Witness ==
    /\ pc = "done" /\ FileRead /\ Len(run.source_objects) = 2
    /\ KeysOfFile = {<<"3">>, <<"9">>}
    /\ <<"3">> \in UnmatchedForSome \cap MatchedForSome
    /\ run.message.missing = 1

\* C26: in the message "Added Annotations to U/P" at the end of a run the
\* number U of updated targets is at most the number P of processed targets.
C26_UpdatedAtMostProcessed ==
    pc = "done" => run.message.updated <= run.message.processed

----------------------------------------------------------------------------
(* Properties of target_iterator, continued                                *)

\* C27: for every source type and target type that ALLOWED_PARAM accepts,
\* target_iterator gives a list of target objects and raises no error.
C27_AllowedResolved ==
    walk.fn = "target_iterator" => walk.res.err = "none"

\* C30: from a run R with the target type Image, whatever the number of runs
\* of the plate, target_iterator yields only images of well samples whose
\* run is R.
C30_OnlyImagesOfRun ==
    (RunWalk /\ walk.res.err = "none") =>
        Range(walk.res.objs) \subseteq
            {<<"Image", hier.image[ws]>> :
                ws \in {w \in WellSamplesOf(hier, WalkedPlate) :
                           hier.run[w] = getId(walk.source)}}

----------------------------------------------------------------------------
(* Properties of the file of KeyVal_to_csv.py                              *)

\* C29: in every file that KeyVal_to_csv.py writes, each data row has as
\* many cells as the header row, with the columns of the parents or without.
C29_RowsAsLongAsHeader ==
    \A f \in DOMAIN run.files :
        \A k \in DOMAIN run.files[f].lines.rows :
            Len(run.files[f].lines.rows[k]) = Len(run.files[f].lines.header)

====
